---------------------------- MODULE Spec2Model ----------------------------
(***************************************************************************)
(* The ingestion -> deduplication -> rewrite -> publish pipeline of the    *)
(* Telugu rewrite server (src/index.js and its modular variant under       *)
(* src/src/services): the Normalizer, the Feed Fetcher with its lock flag, *)
(* the Social Fetcher, the manual queue endpoints, the Ingestion Queue,    *)
(* the Rewrite Engine seen from its caller, and the Publish Worker.        *)
(*                                                                         *)
(* Strings are sequences of tokens.  A URL token is the scheme and host    *)
(* ("H" stands for "https://site.com"), a path segment, or one of the      *)
(* delimiters "/", "?", "#".  Every await of the source is a step of its   *)
(* own, so handlers interleave exactly where the event loop lets them.     *)
(***************************************************************************)
EXTENDS Integers, Sequences, FiniteSets, TLC

\* ------------------------------------------------------------------------
\* Strings
\* ------------------------------------------------------------------------

\* A value that is `undefined` in the source (a field the document lacks).
UNDEF == <<"undefined">>

\* JavaScript falsiness of a string-valued field: undefined or "".
IsFalsy(s) == s = UNDEF \/ s = <<>>

Min(a, b) == IF a <= b THEN a ELSE b

\* Index of the first token of s that is in S, Len(s) + 1 when there is none.
FirstIdx(s, S) ==
    IF \E i \in 1..Len(s) : s[i] \in S
      THEN CHOOSE i \in 1..Len(s) : s[i] \in S /\ \A j \in 1..(i - 1) : s[j] \notin S
      ELSE Len(s) + 1

\* String.prototype.toLowerCase, token by token.
LowerTok(t) ==
    CASE t = "A" -> "a" [] t = "B" -> "b" [] t = "T" -> "t" [] t = "M" -> "m"
      [] t = "L" -> "l" [] OTHER -> t

ToLower(s) == [i \in 1..Len(s) |-> LowerTok(s[i])]

\* s occurs in t as a contiguous substring.
IsSubstring(s, t) ==
    \E i \in 0..(Len(t) - Len(s)) : SubSeq(t, i + 1, i + Len(s)) = s

\* Array.prototype.slice(0, n).
Take(s, n) == SubSeq(s, 1, Min(n, Len(s)))

\* ------------------------------------------------------------------------
\* Normalizer
\* ------------------------------------------------------------------------

\* Scheme and host: "H" is a news site, "X" the social platform.
Hosts == {"H", "X"}

\* new URL(url) succeeds: the string starts with a scheme and host.
CanParse(url) == Len(url) >= 1 /\ url[1] \in Hosts

\* urlObj.search = ""; urlObj.toString(): scheme and host, the path ("/"
\* when the input has none), no query, the fragment as written.
HrefWithoutSearch(url) ==
    LET hashIdx  == FirstIdx(url, {"#"})
        queryIdx == FirstIdx(url, {"?", "#"})
        path     == SubSeq(url, 2, queryIdx - 1)
        hash     == SubSeq(url, hashIdx, Len(url))
    IN  <<url[1]>> \o (IF path = <<>> THEN <<"/">> ELSE path) \o hash

normalizeUrl(url) ==
    IF IsFalsy(url) THEN <<>>
    ELSE IF ~CanParse(url) THEN url
    ELSE LET cleanUrl == HrefWithoutSearch(url)
         IN  IF cleanUrl[Len(cleanUrl)] = "/"
               THEN SubSeq(cleanUrl, 1, Len(cleanUrl) - 1)
               ELSE cleanUrl


\* ------------------------------------------------------------------------
\* Title similarity (the string-similarity package as rssService calls it)
\* ------------------------------------------------------------------------

\* first.replace(/\s+/g, ''): the string without its white space.
RECURSIVE StripSpace(_)
StripSpace(s) ==
    IF s = <<>> THEN <<>>
    ELSE IF Head(s) \in {" ", "\n"} THEN StripSpace(Tail(s))
    ELSE <<Head(s)>> \o StripSpace(Tail(s))

\* The bigrams of s, with their positions.
BigramCount(s, b) == Cardinality({i \in 1..(Len(s) - 1) : <<s[i], s[i + 1]>> = b})

\* The number of bigrams of `second` matched, each against an unused
\* occurrence of the same bigram of `first`.
IntersectionSize(first, second) ==
    LET bigrams == {<<second[i], second[i + 1]>> : i \in 1..(Len(second) - 1)}
        m(b)    == Min(BigramCount(first, b), BigramCount(second, b))
        RECURSIVE Sum(_)
        Sum(S)  == IF S = {} THEN 0
                   ELSE LET b == CHOOSE x \in S : TRUE IN m(b) + Sum(S \ {b})
    IN  Sum(bigrams)

\* compareTwoStrings(a, b) as the fraction <<numerator, denominator>>: the
\* Dice coefficient 2 * |common bigrams| / (|a| + |b| - 2).
compareTwoStrings(a, b) ==
    LET first  == StripSpace(a)
        second == StripSpace(b)
    IN  IF first = second THEN <<1, 1>>
        ELSE IF Len(first) < 2 \/ Len(second) < 2 THEN <<0, 1>>
        ELSE <<2 * IntersectionSize(first, second), Len(first) + Len(second) - 2>>

\* The duplicate threshold 0.65 as the fraction 65 / 100.
ThresholdNum == 65
ThresholdDen == 100

\* rating >= 0.65 (the threshold itself counts as a duplicate).
RatingAtLeastThreshold(r) == r[1] * ThresholdDen >= ThresholdNum * r[2]

\* rating > 0.65.
RatingExceedsThreshold(r) == r[1] * ThresholdDen > ThresholdNum * r[2]

\* findBestMatch(title, existingTitles).bestMatch.rating > 0.65, guarded by
\* existingTitles.length > 0.  Only the best rating is read, so the list is
\* kept as the set of its elements.
IsTitleDuplicate(title, existingTitles) ==
    /\ existingTitles # {}
    /\ \E t \in existingTitles : RatingExceedsThreshold(compareTwoStrings(title, t))

\* `Title: ${title}\nSummary: ${snippet}` of a feed entry.
RssText(title, snippet) == <<"Title: ">> \o title \o <<"\n", "Summary: ">> \o snippet

\* q.text.split('\n')[0].replace("Title: ", ""): the first line of a queued
\* text without the first occurrence of the "Title: " prefix.
TitleOfText(text) ==
    LET line == SubSeq(text, 1, FirstIdx(text, {"\n"}) - 1)
        k    == FirstIdx(line, {"Title: "})
    IN  SubSeq(line, 1, k - 1) \o SubSeq(line, k + 1, Len(line))

\* Array.prototype.filter(Boolean) on the strings collected.
FilterTruthy(S) == {t \in S : ~IsFalsy(t)}

\* The parts of a valid URL as written.
PathOf(url) == SubSeq(url, 2, FirstIdx(url, {"?", "#"}) - 1)

QueryOf(url) == SubSeq(url, FirstIdx(url, {"?", "#"}), FirstIdx(url, {"#"}) - 1)

HashOf(url) == SubSeq(url, FirstIdx(url, {"#"}), Len(url))


\* ------------------------------------------------------------------------
\* Slug of a URL
\* ------------------------------------------------------------------------

\* pathname.split("/"): the runs of s between slashes, empty ones included.
RECURSIVE SplitOnSlash(_)
SplitOnSlash(s) ==
    LET cut == FirstIdx(s, {"/"})
    IN  IF cut > Len(s) THEN <<s>>
        ELSE <<SubSeq(s, 1, cut - 1)>> \o SplitOnSlash(SubSeq(s, cut + 1, Len(s)))

\* /^\d+$/.test(seg).
Digits == {"0", "1", "2", "3", "4", "5", "6", "7", "8", "9"}

IsNumeric(seg) == seg # <<>> /\ \A i \in 1..Len(seg) : seg[i] \in Digits

\* The endings /\.html?$/i matches, in lower case.
HtmlSuffixes == {<<".", "h", "t", "m">>, <<".", "h", "t", "m", "l">>}

\* slug.replace(/\.html?$/i, "").
StripHtmlSuffix(seg) ==
    LET n == Len(seg)
    IN  IF n >= 5 /\ ToLower(SubSeq(seg, n - 4, n)) \in HtmlSuffixes THEN SubSeq(seg, 1, n - 5)
        ELSE IF n >= 4 /\ ToLower(SubSeq(seg, n - 3, n)) \in HtmlSuffixes
               THEN SubSeq(seg, 1, n - 4)
        ELSE seg

\* slug.replace(/_/g, "-").
HyphenForUnderscore(seg) == [i \in 1..Len(seg) |-> IF seg[i] = "_" THEN "-" ELSE seg[i]]

\* urlObj.pathname.split("/").filter(Boolean).
PathSegments(url) == SelectSeq(SplitOnSlash(PathOf(url)), LAMBDA seg : seg # <<>>)

extractSlugFromUrl(url) ==
    IF IsFalsy(url) \/ ~CanParse(url) THEN <<>>
    ELSE LET pathSegments == PathSegments(url)
             n    == Len(pathSegments)
             slug == IF n > 1 /\ IsNumeric(pathSegments[n]) THEN pathSegments[n - 1]
                     ELSE pathSegments[n]
         IN  IF n = 0 THEN <<>>
             ELSE ToLower(HyphenForUnderscore(StripHtmlSuffix(slug)))

\* ------------------------------------------------------------------------
\* Inputs and bounds
\* ------------------------------------------------------------------------

\* Queue.find().sort({ queuedAt: 1 }).limit(3): the Worker's batch size.
BatchSize == 3

\* QueueItems created in one behaviour (each takes a fresh _id).
MaxOid == 2


\* URLs on the same page: plain, with a trailing slash, with a query, with a
\* fragment, with a query and a fragment; and a URL of another page.
UrlA    == <<"H", "/", "a">>
UrlAS   == <<"H", "/", "a", "/">>
UrlAQ   == <<"H", "/", "a", "?", "q">>
UrlAQF  == <<"H", "/", "a", "?", "q", "#", "f">>
UrlAF   == <<"H", "/", "a", "#", "f">>
UrlB    == <<"H", "/", "b">>

\* A URL with another letter case, and one new URL() cannot parse.
UrlUpper == <<"H", "/", "A">>
UrlRel   == <<"/", "a">>

\* Titles of 21 characters: TitleB shares 13 of its 20 bigrams with TitleA
\* (similarity exactly 0.65), TitleC 14 (0.70); TitleD shares none.
TitleA == <<"a","b","c","d","e","f","g","h","i","j","k","l","m","n","o","p","q","r","s","t","u">>
TitleB == <<"a","b","c","d","e","f","g","h","i","j","k","l","m","n","1","2","3","4","5","6","7">>
TitleC == <<"a","b","c","d","e","f","g","h","i","j","k","l","m","n","o","1","2","3","4","5","6">>
TitleD == <<"x", "y", "z">>

\* The title the Rewrite Engine writes.
TitleTe == <<"t", "e">>

\* A pasted text.
Content == <<"p", "a", "s", "t", "e">>

\* ------------------------------------------------------------------------
\* State
\* ------------------------------------------------------------------------

VARIABLES
    queue,          \* the Queue collection, oldest queuedAt first
    posts,          \* the posts collection
    nextOid,        \* the next fresh ObjectId
    wk,             \* the drain runs
    isRSSFetching,  \* the Feed Fetcher's lock flag
    rss,            \* the invocations of fetchAndQueueRSS
    feeds,          \* what each feed source serves (outside the program)
    tw,             \* the Social Fetcher cycles
    nulled,         \* history: _ids whose rewrite returned null
    reEngine,       \* history: _ids passed to the Rewrite Engine after that
    since,          \* history: what happened since the last fetch cycle began
                    \*   ("drained": an item left the queue; "aged": a Post
                    \*   left the 72-hour window)
    lastFull,       \* history: the last fetch cycle read every feed
    call,           \* a helper function applied on its own, or a request
                    \*   answered: its argument and what it returned
    sourceStore,    \* the TwitterSource and RSSSource collections
    TARGET_HANDLES, \* the in-memory list of handles
    RSS_FEEDS,      \* the in-memory list of feeds
    crud,           \* the Source requests and reloads in flight
    boot,           \* the process start
    tags,           \* the tags collection
    tg,             \* the calls of getOrCreateTags in flight
    removed         \* history: _ids an admin request removed from the queue

storeVars  == <<queue, posts, nextOid>>
feedVars   == <<isRSSFetching, rss, feeds, lastFull>>
engineVars == <<nulled, reEngine>>

\* What the pipeline's handlers never touch.
registryVars == <<sourceStore, TARGET_HANDLES, RSS_FEEDS, crud>>

\* The tags and the calls that make them.
tagVars == <<tags, tg>>

auxVars == <<call, registryVars, boot, tagVars, removed>>

vars == <<queue, posts, nextOid, wk, isRSSFetching, rss, feeds, tw, nulled,
          reEngine, since, lastFull, call, sourceStore, TARGET_HANDLES, RSS_FEEDS,
          crud, boot, tags, tg, removed>>

\* The process not started: where the entry file is, which entry file, the
\* credentials the environment has, the state of the store connection,
\* whether the scheduled jobs are registered and whether the server listens.
NoBoot == [pc |-> "off", entry |-> "none", env |-> {}, db |-> "none", cron |-> FALSE,
           listening |-> FALSE]

\* No helper applied.
NoCall == [fn |-> "none", arg |-> <<>>, out |-> <<>>]

\* The drain runs in flight at once: a cron firing can find the previous run
\* still awaiting.
Runs == {1, 2}

QueueOids == {queue[k].oid : k \in 1..Len(queue)}

\* A Queue document.  oid is its _id, id the schema's unique `id`.
QueueDoc(oid, id, text, url, source) ==
    [oid |-> oid, id |-> id, text |-> text, url |-> url, source |-> source,
     relatedStories |-> <<>>,
     media |-> <<>>, extendedEntities |-> [hasMedia |-> FALSE, media |-> <<>>]]

\* A related story as a request gives it: title, url, and a field the schema
\* does not know.
Story(title, url, extra) == [title |-> title, url |-> url, extra |-> extra]

\* relatedStorySchema casts a story: the schema's fields are kept, others
\* dropped; title is required.
CastStory(story) == [title |-> story.title, url |-> story.url]

CastStories(stories) == [i \in 1..Len(stories) |-> CastStory(stories[i])]

StoriesValid(stories) == \A i \in 1..Len(stories) : ~IsFalsy(stories[i].title)

\* The tweetId of a Post that has none (the field is sparse).
NoTweetId == 0

\* Queue.deleteOne({ _id }).
DeleteOne(q, oid) == SelectSeq(q, LAMBDA d : d.oid # oid)

\* ------------------------------------------------------------------------
\* Manual endpoints
\* ------------------------------------------------------------------------

\* The text POST /api/add-content-to-queue stores.
ContentText(title, content, url) ==
    IF ~IsFalsy(title)
      THEN <<"Title: ">> \o title \o <<"\n", "Content: ">>
               \o (IF IsFalsy(content) THEN <<>> ELSE content)
    ELSE IF ~IsFalsy(content) THEN content
    ELSE <<"Article from ">> \o url

\* The bodies tried: nothing, a pasted text without a url, a url alone.
ContentBodies ==
    {[content |-> UNDEF, url |-> UNDEF, title |-> UNDEF],
     [content |-> Content, url |-> UNDEF, title |-> UNDEF],
     [content |-> UNDEF, url |-> UrlAF, title |-> UNDEF],
     [content |-> UNDEF, url |-> UrlAQF, title |-> UNDEF]}

\* POST /api/add-content-to-queue with body {content, url, title}.
AddContentToQueue ==
    /\ nextOid <= MaxOid
    /\ \E body \in ContentBodies :
          IF IsFalsy(body.content) /\ IsFalsy(body.url)
            THEN UNCHANGED <<queue, nextOid>>              \* 400 "No content/url"
            ELSE /\ queue' = Append(queue,
                        QueueDoc(nextOid, nextOid,
                                 ContentText(body.title, body.content, body.url),
                                 IF IsFalsy(body.url) THEN <<>> ELSE body.url,
                                 "Manual Paste"))
                 /\ nextOid' = nextOid + 1
    /\ UNCHANGED <<posts, wk, nulled, reEngine, feedVars, since, tw, auxVars>>

\* The related stories requests carry: two good ones (the second without a
\* url) and one without the required title.
StoryA == Story(TitleA, UrlA, "x")

StoryB == Story(TitleB, UNDEF, "y")

StoryNoTitle == Story(UNDEF, UrlB, "x")

StoryLists == {<<>>, <<StoryA>>, <<StoryA, StoryB>>, <<StoryB, StoryA>>, <<StoryNoTitle>>}

\* The items of a POST /api/add-rss-to-queue body; hasStories tells whether
\* the item has a relatedStories field at all.
RssQueueItems ==
    {[title |-> TitleA, url |-> u, hasStories |-> FALSE, relatedStories |-> <<>>] :
        u \in {UrlA, UrlB}}
    \cup {[title |-> TitleA, url |-> u, hasStories |-> TRUE, relatedStories |-> l] :
        u \in {UrlA, UrlB}, l \in StoryLists}

\* The bodies tried: not an array, the empty array, an array of one item.
RssQueueBodies ==
    {[isArray |-> FALSE, items |-> <<>>], [isArray |-> TRUE, items |-> <<>>]}
    \cup {[isArray |-> TRUE, items |-> <<item>>] : item \in RssQueueItems}

\* The Queue document built from one item of the body, as the schema stores it.
RssQueueDoc(oid, item) ==
    [QueueDoc(oid, oid, <<"Title: ">> \o item.title \o <<"\n", "Summary: ">>,
              item.url, "Manual")
        EXCEPT !.relatedStories = CastStories(item.relatedStories)]

\* POST /api/add-rss-to-queue: 400 when the body holds no array; insertMany
\* validates every document first and inserts none when one is invalid (500).
AddRssToQueue ==
    /\ nextOid <= MaxOid
    /\ \E body \in RssQueueBodies :
          IF ~body.isArray \/ body.items = <<>>
               \/ \E i \in 1..Len(body.items) : ~StoriesValid(body.items[i].relatedStories)
            THEN UNCHANGED <<queue, nextOid>>
            ELSE /\ queue' = queue \o [i \in 1..Len(body.items) |->
                                          RssQueueDoc(nextOid + i - 1, body.items[i])]
                 /\ nextOid' = nextOid + Len(body.items)
    /\ UNCHANGED <<posts, wk, nulled, reEngine, feedVars, since, tw, auxVars>>

\* The bodies of POST /api/add-content-to-queue that may carry related
\* stories: without content and url, a pasted text, a url alone; each without a
\* relatedStories field, with none, with one and with two stories.
StoryBodies ==
    {[content |-> cu[1], url |-> cu[2], title |-> UNDEF, hasStories |-> sl[1],
      relatedStories |-> sl[2]] :
        cu \in {<<UNDEF, UNDEF>>, <<Content, UNDEF>>, <<UNDEF, UrlAF>>},
        sl \in {<<FALSE, <<>> >>, <<TRUE, <<>> >>, <<TRUE, <<StoryA>> >>,
                <<TRUE, <<StoryB, StoryA>> >>}}

\* The Queue document the endpoint builds from a body, with the related
\* stories its variant gives it.
ContentQueueDoc(oid, body, stories) ==
    [QueueDoc(oid, oid, ContentText(body.title, body.content, body.url),
              IF IsFalsy(body.url) THEN <<>> ELSE body.url, "Manual Paste")
        EXCEPT !.relatedStories = CastStories(stories)]

\* A request of the endpoint answered: what it does to the queue and the
\* request with its status, kept in call.
Answer(fn, body, status, docs) ==
    /\ queue' = queue \o docs
    /\ nextOid' = nextOid + Len(docs)
    /\ call' = [fn |-> fn, arg |-> body, out |-> [status |-> status]]

\* POST /api/add-content-to-queue as server.js 1061 has it: the document is
\* built with relatedStories: relatedStories, a name that is bound nowhere
\* (the module is in strict mode), so building it throws a ReferenceError
\* and the catch answers 500.
AddContentToQueueUnbound ==
    /\ nextOid <= MaxOid
    /\ \E body \in StoryBodies :
          IF IsFalsy(body.content) /\ IsFalsy(body.url)
            THEN Answer("add-content-to-queue", body, 400, <<>>)
            ELSE Answer("add-content-to-queue", body, 500, <<>>)
    /\ UNCHANGED <<posts, wk, nulled, reEngine, feedVars, since, tw, registryVars, boot, tagVars, removed>>

\* POST /api/add-content-to-queue as server.js 4954 has it: relatedStories
\* is read from the body.
AddContentWithStories ==
    /\ nextOid <= MaxOid
    /\ \E body \in StoryBodies :
          IF IsFalsy(body.content) /\ IsFalsy(body.url)
            THEN Answer("add-content-to-queue", body, 400, <<>>)
          ELSE IF ~StoriesValid(body.relatedStories)
            THEN Answer("add-content-to-queue", body, 500, <<>>)
          ELSE Answer("add-content-to-queue", body, 200,
                      <<ContentQueueDoc(nextOid, body, body.relatedStories)>>)
    /\ UNCHANGED <<posts, wk, nulled, reEngine, feedVars, since, tw, registryVars, boot, tagVars, removed>>

\* addUrlToQueue of the dashboard controller: relatedStories: [].
addUrlToQueue ==
    /\ nextOid <= MaxOid
    /\ \E body \in StoryBodies :
          IF IsFalsy(body.content) /\ IsFalsy(body.url)
            THEN Answer("add-content-to-queue", body, 400, <<>>)
            ELSE Answer("add-content-to-queue", body, 200,
                        <<ContentQueueDoc(nextOid, body, <<>>)>>)
    /\ UNCHANGED <<posts, wk, nulled, reEngine, feedVars, since, tw, registryVars, boot, tagVars, removed>>

\* POST /api/clear-queue: Queue.deleteMany({}).
clearQueue ==
    /\ queue' = <<>>
    /\ removed' = removed \cup QueueOids
    /\ UNCHANGED <<posts, nextOid, wk, nulled, reEngine, feedVars, since, tw, call,
                   registryVars, boot, tagVars>>

\* DELETE /api/queue/:id: Queue.deleteOne({ id: req.params.id }).
deleteQueueItem ==
    /\ \E k \in 1..Len(queue) :
          /\ queue' = SelectSeq(queue, LAMBDA d : d.id # queue[k].id)
          /\ removed' = removed \cup {queue[k].oid}
    /\ UNCHANGED <<posts, nextOid, wk, nulled, reEngine, feedVars, since, tw, call,
                   registryVars, boot, tagVars>>

\* ------------------------------------------------------------------------
\* Rewrite Engine, as its caller sees it
\* ------------------------------------------------------------------------

\* formatTweetWithGemini returns null (the call or JSON.parse threw) or the
\* parsed object, whose title the model may have left out.
NullResult == [ok |-> FALSE, title |-> UNDEF, slug_en |-> UNDEF, category |-> UNDEF]

GeminiResults ==
    {NullResult,
     [ok |-> TRUE, title |-> TitleTe, slug_en |-> <<>>, category |-> UNDEF],
     [ok |-> TRUE, title |-> UNDEF, slug_en |-> <<>>, category |-> UNDEF]}

\* The text of an article, and what the engine may return for it: null, or
\* an object with a title and a slug_en that is absent, empty, of two
\* characters or of three.
Article == <<"a", "r", "t">>

ArticleResults ==
    {NullResult} \cup
    {[ok |-> TRUE, title |-> TitleTe, slug_en |-> slug, category |-> UNDEF] :
        slug \in {UNDEF, <<>>, <<"a", "b">>, <<"a", "b", "c">>}}

\* What formatTweetWithGemini(item.text, item.url) may return.
EngineResults(item) == IF item.text = Article THEN ArticleResults ELSE GeminiResults

\* ------------------------------------------------------------------------
\* Publish Worker
\* ------------------------------------------------------------------------

\* Post.findOne({ url: { $regex: new RegExp(escaped cleanUrl, 'i') } }):
\* some Post's stored url contains cleanUrl, letter case ignored.
FindDuplicateExact(url, P) ==
    \E p \in P : p.url = url

FindDuplicateCaseSensitive(url, P) ==
    LET cleanUrl == normalizeUrl(url)
    IN  \E p \in P : p.url # UNDEF /\ IsSubstring(cleanUrl, p.url)

FindDuplicate(url, P) ==
    LET cleanUrl == normalizeUrl(url)
    IN  \E p \in P : p.url # UNDEF /\ IsSubstring(ToLower(cleanUrl), ToLower(p.url))

\* What newPost.save() does with the document: "invalid" (title is
\* required), "conflict" (E11000 on the unique sparse url index, which holds
\* every document that has the field, "" included), or "saved".
SaveOutcome(title, url, P) ==
    IF IsFalsy(title) THEN "invalid"
    ELSE IF url # UNDEF /\ \E p \in P : p.url = url THEN "conflict"
    ELSE "saved"

\* The default category and the fixed slug.
General == <<"General">>

LatestTeluguNews == <<"latest", "-", "telugu", "-", "news">>

LatestNews == <<"latest", "-", "news">>

\* The fixed slug of the build that runs: "latest-telugu-news" in index.js,
\* "latest-news" in the worker service that server.js starts.
FallbackSlug == IF boot.entry = "server" THEN LatestNews ELSE LatestTeluguNews

\* finalSearchSlug with the engine's slug_en taken whatever its length.
FinalSearchSlugAnyLength(slug_en, url) ==
    LET fromEngine == IF IsFalsy(slug_en) THEN extractSlugFromUrl(url) ELSE slug_en
    IN  IF IsFalsy(fromEngine) THEN FallbackSlug ELSE fromEngine

\* finalSearchSlug: the engine's slug_en when it has 3 characters or more,
\* else the slug of the item's url, else the fixed one.
FinalSearchSlug(slug_en, url) ==
    LET fromEngine == IF IsFalsy(slug_en) \/ Len(slug_en) < 3
                        THEN extractSlugFromUrl(url) ELSE slug_en
    IN  IF IsFalsy(fromEngine) THEN FallbackSlug ELSE fromEngine

\* The Post's title: geminiData.title in index.js; the worker service falls
\* back to the slug of the url, then to "News Update".
NewsUpdate == <<"News Update">>

FinalTitle(title, url) ==
    IF boot.entry = "server" /\ IsFalsy(title)
      THEN (IF extractSlugFromUrl(url) # <<>> THEN extractSlugFromUrl(url) ELSE NewsUpdate)
      ELSE title

\* A media attachment of a QueueItem and a variant of its video_info; a photo
\* has no video_info.
Variant(content_type, bitrate, url) ==
    [content_type |-> content_type, bitrate |-> bitrate, url |-> url]

Attachment(type, variants) == [type |-> type, variants |-> variants]

\* videoUrl: null.
NullUrl == <<"null">>

\* item.extendedEntities?.media || item.media || []: an array is truthy even
\* when it is empty.
MediaList(item) ==
    IF item.extendedEntities.hasMedia THEN item.extendedEntities.media ELSE item.media

Mp4(variants) == SelectSeq(variants, LAMBDA v : v.content_type = "video/mp4")

\* The first mp4 variant as the list has them, whatever its bitrate.
BestVideoUnsorted(variants) == Mp4(variants)[1]

\* variants.filter(mp4).sort((a, b) => b.bitrate - a.bitrate)[0]: the sort is
\* stable, so of the variants of highest bitrate the first one.
BestVideo(variants) ==
    LET mp4 == Mp4(variants)
    IN  mp4[CHOOSE i \in 1..Len(mp4) :
                /\ \A j \in 1..Len(mp4) : mp4[j].bitrate <= mp4[i].bitrate
                /\ \A j \in 1..(i - 1) : mp4[j].bitrate < mp4[i].bitrate]

\* finalPostType and tweetVideo.
PostKind(item) ==
    LET mediaList == MediaList(item)
    IN  IF /\ Len(mediaList) > 0
           /\ mediaList[1].type = "video"
           /\ Mp4(mediaList[1].variants) # <<>>
          THEN [type |-> "normal_video", videoUrl |-> BestVideo(mediaList[1].variants).url]
          ELSE [type |-> "normal_post", videoUrl |-> NullUrl]

\* The Post with the item's relatedStories left unmapped (the schema's
\* default, the empty list).
NewPostWithoutStories(item, gemini) ==
    [title |-> FinalTitle(gemini.title, item.url), url |-> item.url, tweetId |-> NoTweetId,
     recent |-> TRUE, from |-> item.oid,
     relatedStories |-> <<>>,
     categories |-> <<IF IsFalsy(gemini.category) THEN General ELSE gemini.category>>,
     imageSearchSlug |-> FinalSearchSlug(gemini.slug_en, item.url),
     type |-> PostKind(item).type, videoUrl |-> PostKind(item).videoUrl]

\* The Post the Worker builds from a QueueItem and the engine's result.
\* from is history: the _id of the QueueItem it was built from.  The postId
\* (a fresh random number) is left out.
NewPost(item, gemini) ==
    [title |-> FinalTitle(gemini.title, item.url), url |-> item.url, tweetId |-> NoTweetId,
     recent |-> TRUE, from |-> item.oid,
     relatedStories |-> CastStories(item.relatedStories),
     categories |-> <<IF IsFalsy(gemini.category) THEN General ELSE gemini.category>>,
     imageSearchSlug |-> FinalSearchSlug(gemini.slug_en, item.url),
     type |-> PostKind(item).type, videoUrl |-> PostKind(item).videoUrl]

\* The prompt of the generation call: the Input Text and the Context line
\* (empty when there is none).
Prompt(text, context) == [text |-> text, context |-> context]

NoPrompt == Prompt(<<>>, <<>>)

\* A run of the cron callback: where it is, its batch, the index of the item
\* in hand and, for that item, the engine's result, whether a Post's url
\* equalled the item's normalized url when it was looked up (history), and
\* how the item ended.
IdleRun == [pc |-> "idle", batch |-> <<>>, i |-> 0, gemini |-> NullResult,
            matched |-> FALSE, outcome |-> "none", scraped |-> "none", prompt |-> NoPrompt]

Item(r) == wk[r].batch[wk[r].i]

\* Queue.find().sort({ queuedAt: 1 }) without the limit.
FindBatchUnbounded(q) == q

\* Queue.find().sort({ queuedAt: 1 }).limit(3).
FindBatch(q) == Take(q, BatchSize)

\* The cron callback starts: read the batch; return when it is empty.  Runs
\* are told apart only by the order they started in.
WkStart(r) ==
    /\ wk[r].pc = "idle"
    /\ \A o \in Runs : o < r => wk[o].pc # "idle"
    /\ wk' = [wk EXCEPT ![r] =
                IF queue = <<>> THEN IdleRun
                ELSE [IdleRun EXCEPT !.pc = "dedup", !.batch = FindBatch(queue),
                                     !.i = 1]]
    /\ UNCHANGED <<queue, posts, nextOid, nulled, reEngine, feedVars, since, tw, auxVars>>

\* Move to the next item of the batch, or end the run.
NextItem(run) ==
    IF run.i < Len(run.batch)
      THEN [run EXCEPT !.pc = "dedup", !.i = run.i + 1, !.gemini = NullResult,
                       !.matched = FALSE, !.outcome = "none", !.scraped = "none",
                       !.prompt = NoPrompt]
      ELSE [run EXCEPT !.pc = "done", !.gemini = NullResult, !.matched = FALSE,
                       !.outcome = "none", !.scraped = "none", !.prompt = NoPrompt]

\* Some Post's url is the item's normalized url (letter case ignored).
UrlPresent(url, P) ==
    \E p \in P : p.url # UNDEF /\ ToLower(p.url) = ToLower(normalizeUrl(url))

\* Last-mile deduplication: the Post.findOne for the item's url.  Without a
\* duplicate the Rewrite Engine is called.
WkDedup(r) ==
    /\ wk[r].pc = "dedup"
    /\ LET item == Item(r)
           dup  == ~IsFalsy(item.url) /\ FindDuplicate(item.url, posts)
       IN  /\ wk' = [wk EXCEPT ![r] =
                       [@ EXCEPT !.pc = IF dup THEN "deleteDup" ELSE "rewrite",
                                 !.matched = ~IsFalsy(item.url) /\ UrlPresent(item.url, posts)]]
           /\ reEngine' = IF ~dup /\ item.oid \in nulled
                            THEN reEngine \cup {item.oid} ELSE reEngine
    /\ UNCHANGED <<queue, posts, nextOid, nulled, feedVars, since, tw, auxVars>>

\* Duplicate found: Queue.deleteOne, then `continue` (no delay).
WkDeleteDup(r) ==
    /\ wk[r].pc = "deleteDup"
    /\ queue' = DeleteOne(queue, Item(r).oid)
    /\ since' = IF Item(r).oid \in QueueOids THEN since \cup {"drained"} ELSE since
    /\ wk' = [wk EXCEPT ![r] = NextItem(wk[r])]
    /\ UNCHANGED <<posts, nextOid, nulled, reEngine, feedVars, tw, auxVars>>

\* formatTweetWithGemini returns.
WkRewrite(r) ==
    /\ wk[r].pc = "rewrite"
    /\ \E g \in EngineResults(Item(r)) :
          /\ wk' = [wk EXCEPT ![r] = [@ EXCEPT !.gemini = g,
                                              !.pc = IF g.ok THEN "save" ELSE "deleteNull"]]
          /\ nulled' = IF g.ok THEN nulled ELSE nulled \cup {Item(r).oid}
    /\ UNCHANGED <<queue, posts, nextOid, reEngine, feedVars, since, tw, auxVars>>

\* Null result: Queue.deleteOne, then the delay.
WkDeleteNull(r) ==
    /\ wk[r].pc = "deleteNull"
    /\ queue' = DeleteOne(queue, Item(r).oid)
    /\ since' = IF Item(r).oid \in QueueOids THEN since \cup {"drained"} ELSE since
    /\ wk' = [wk EXCEPT ![r] = [@ EXCEPT !.pc = "sleep", !.outcome = "null"]]
    /\ UNCHANGED <<posts, nextOid, nulled, reEngine, feedVars, tw, auxVars>>

\* A throw while an item is processed, were there no try around the loop
\* body: the callback ends.
CaughtAborting(run, outcome) == [run EXCEPT !.pc = "done", !.outcome = outcome]

\* The catch going on to the next item at once, as it would were the delay
\* inside the try.
CaughtWithoutDelay(run, outcome) == NextItem(run)

\* catch (e) of the loop body: the error is logged, then the delay.
Caught(run, outcome) == [run EXCEPT !.pc = "sleep", !.outcome = outcome]

\* newPost.save(): the Post is inserted, or save throws and the per-item
\* catch logs the error and goes on to the delay.
WkSave(r) ==
    /\ wk[r].pc = "save"
    /\ LET post == NewPost(Item(r), wk[r].gemini)
           res  == SaveOutcome(post.title, post.url, posts)
       IN  IF res = "saved"
             THEN /\ posts' = posts \cup {post}
                  /\ wk' = [wk EXCEPT ![r] = [@ EXCEPT !.pc = "delete"]]
             ELSE /\ posts' = posts
                  /\ wk' = [wk EXCEPT ![r] = Caught(@, res)]
    /\ UNCHANGED <<queue, nextOid, nulled, reEngine, feedVars, since, tw, auxVars>>

\* A store call of the loop body throws (Post.findOne, Queue.deleteOne): the
\* per-item catch.
WkThrows(r) ==
    /\ \/ wk[r].pc = "dedup" /\ ~IsFalsy(Item(r).url)
       \/ wk[r].pc \in {"deleteDup", "deleteNull", "delete"}
    /\ wk' = [wk EXCEPT ![r] = Caught(@, "error")]
    /\ UNCHANGED <<queue, posts, nextOid, nulled, reEngine, feedVars, since, tw, auxVars>>

\* Published: Queue.deleteOne, then the delay.
WkDelete(r) ==
    /\ wk[r].pc = "delete"
    /\ queue' = DeleteOne(queue, Item(r).oid)
    /\ since' = IF Item(r).oid \in QueueOids THEN since \cup {"drained"} ELSE since
    /\ wk' = [wk EXCEPT ![r] = [@ EXCEPT !.pc = "sleep", !.outcome = "published"]]
    /\ UNCHANGED <<posts, nextOid, nulled, reEngine, feedVars, tw, auxVars>>

\* sleep(5000) ends.
WkSleep(r) ==
    /\ wk[r].pc = "sleep"
    /\ wk' = [wk EXCEPT ![r] = NextItem(wk[r])]
    /\ UNCHANGED <<queue, posts, nextOid, nulled, reEngine, feedVars, since, tw, auxVars>>

\* The callback returns.
WkReturn(r) ==
    /\ wk[r].pc = "done"
    /\ wk' = [wk EXCEPT ![r] = IdleRun]
    /\ UNCHANGED <<queue, posts, nextOid, nulled, reEngine, feedVars, since, tw, auxVars>>

\* The Rewrite Engine step by step: scrapeUrlContent, then the generation
\* call.

\* What the page gives when it is scraped.
PageText == <<"p", "a", "g", "e">>

\* url.includes("twitter.com") || url.includes("x.com").
IsSocialUrl(url) == \E i \in 1..Len(url) : url[i] = "X"

\* The request or the parsing throwing past scrapeUrlContent, were there no
\* try in it: the Worker's catch has the item.
ScrapeFailedThrowing(run) == [run EXCEPT !.pc = "sleep", !.outcome = "error"]

\* scrapeUrlContent's catch: null is returned.
ScrapeFailed(run) == [run EXCEPT !.pc = "generate", !.scraped = "failed"]

\* await scrapeUrlContent(tweetUrl), called when the item has a url: null at
\* once for a url of the social platform; else the page's text, null when the
\* request or the parsing threw, nothing usable when the text is too short.
WkScrape(r) ==
    /\ wk[r].pc = "rewrite"
    /\ ~IsFalsy(Item(r).url)
    /\ \/ /\ IsSocialUrl(Item(r).url)
          /\ wk' = [wk EXCEPT ![r] = [@ EXCEPT !.pc = "generate", !.scraped = "skipped"]]
       \/ /\ ~IsSocialUrl(Item(r).url)
          /\ \/ wk' = [wk EXCEPT ![r] = [@ EXCEPT !.pc = "generate", !.scraped = "ok"]]
             \/ wk' = [wk EXCEPT ![r] = [@ EXCEPT !.pc = "generate", !.scraped = "empty"]]
             \/ wk' = [wk EXCEPT ![r] = ScrapeFailed(@)]
    /\ UNCHANGED <<queue, posts, nextOid, nulled, reEngine, feedVars, since, tw, auxVars>>

\* model.generateContent(prompt) and JSON.parse: the prompt has the item's
\* text, and the Context line when scraping gave one.  Without a url nothing
\* is scraped and the call comes first.
WkGenerate(r) ==
    /\ \/ wk[r].pc = "generate"
       \/ wk[r].pc = "rewrite" /\ IsFalsy(Item(r).url)
    /\ \E g \in EngineResults(Item(r)) :
          /\ wk' = [wk EXCEPT ![r] =
                       [@ EXCEPT !.gemini = g,
                                 !.prompt = Prompt(Item(r).text,
                                                   IF wk[r].scraped = "ok" THEN PageText
                                                   ELSE <<>>),
                                 !.pc = IF g.ok THEN "save" ELSE "deleteNull"]]
          /\ nulled' = IF g.ok THEN nulled ELSE nulled \cup {Item(r).oid}
    /\ UNCHANGED <<queue, posts, nextOid, reEngine, feedVars, since, tw, auxVars>>

\* The run with the Rewrite Engine's two calls in place of its return.
WorkerScraping(r) ==
    \/ WkStart(r)
    \/ WkDedup(r)
    \/ WkDeleteDup(r)
    \/ WkScrape(r)
    \/ WkGenerate(r)
    \/ WkDeleteNull(r)
    \/ WkSave(r)
    \/ WkDelete(r)
    \/ WkSleep(r)
    \/ WkReturn(r)

Worker(r) ==
    \/ WkStart(r)
    \/ WkDedup(r)
    \/ WkDeleteDup(r)
    \/ WkRewrite(r)
    \/ WkDeleteNull(r)
    \/ WkSave(r)
    \/ WkDelete(r)
    \/ WkSleep(r)
    \/ WkReturn(r)

\* ------------------------------------------------------------------------
\* Feed Fetcher
\* ------------------------------------------------------------------------

\* feed.items.slice(0, 5): the entries read of one feed.
FeedSlice == 5

\* The invocations of fetchAndQueueRSS in flight at once: the scheduled job
\* and GET /api/trigger-rss-fetch.
Fetches == {1, 2}

FeedEntry(title, link) == [title |-> title, link |-> link]

\* What the two feed sources of RSS_FEEDS serve, as tried: titles alike
\* (0.70, and exactly 0.65) on different links across the feeds, one page
\* under two links, and two entries in one feed.
FeedScenarios ==
    { << <<FeedEntry(TitleA, UrlA)>>, <<FeedEntry(TitleC, UrlB)>> >>,
      << <<FeedEntry(TitleA, UrlA)>>, <<FeedEntry(TitleB, UrlB)>> >>,
      << <<FeedEntry(TitleA, UrlAQ)>>, <<FeedEntry(TitleD, UrlAS)>> >>,
      << <<FeedEntry(TitleD, UrlB), FeedEntry(TitleA, UrlA)>>, <<>> >> }

FeedName(src) == IF src = 1 THEN "feed1" ELSE "feed2"

\* An invocation: where it is; existingUrls and existingTitles; the feed
\* source and the entry in hand; totalQueued and the value returned; and as
\* history the urls read from the store (snap), the entries this cycle
\* enqueued (enq, as <<source, index>>), the sources it parsed (parsed), and
\* what happened between the start of the cycle before it and its own
\* start (before; "partial": that cycle did not read every feed), and the
\* sources left because saving an entry threw (threw).
IdleFetch ==
    [pc |-> "idle", urls |-> {}, titles |-> {}, src |-> 0, k |-> 0, items |-> <<>>,
     total |-> 0, ret |-> 0, refused |-> FALSE, snap |-> {}, enq |-> {},
     parsed |-> {}, before |-> {}, threw |-> {}]

InBody(f) == rss[f].pc \in {"readPosts", "readQueue", "parse", "items", "finish"}

\* The guard and the lock: `if (isRSSFetching) return 0; isRSSFetching = true`
\* runs without an await in between.
RssEnterNoGuard(f) ==
    /\ rss[f].pc = "idle"
    /\ \A o \in Fetches : o < f => rss[o].pc # "idle"
    /\ isRSSFetching' = TRUE
    /\ rss' = [rss EXCEPT ![f] = [IdleFetch EXCEPT !.pc = "readPosts",
                                                    !.before = IF lastFull THEN since
                                                                ELSE since \cup {"partial"}]]
    /\ since' = {}
    /\ UNCHANGED <<storeVars, wk, feeds, lastFull, engineVars, tw, auxVars>>

RssEnterReleasing(f) ==
    /\ rss[f].pc = "idle"
    /\ \A o \in Fetches : o < f => rss[o].pc # "idle"
    /\ IF isRSSFetching
         THEN /\ rss' = [rss EXCEPT ![f] = [IdleFetch EXCEPT !.pc = "returned",
                                                         !.refused = TRUE]]
              /\ isRSSFetching' = FALSE
              /\ UNCHANGED since
         ELSE /\ isRSSFetching' = TRUE
              /\ rss' = [rss EXCEPT ![f] = [IdleFetch EXCEPT !.pc = "readPosts",
                                                         !.before = IF lastFull THEN since
                                                                ELSE since \cup {"partial"}]]
              /\ since' = {}
    /\ UNCHANGED <<storeVars, wk, feeds, lastFull, engineVars, tw, auxVars>>

RssEnter(f) ==
    /\ rss[f].pc = "idle"
    /\ \A o \in Fetches : o < f => rss[o].pc # "idle"
    /\ IF isRSSFetching
         THEN /\ rss' = [rss EXCEPT ![f] = [IdleFetch EXCEPT !.pc = "returned",
                                                         !.refused = TRUE]]
              /\ UNCHANGED <<isRSSFetching, since>>
         ELSE /\ isRSSFetching' = TRUE
              /\ rss' = [rss EXCEPT ![f] = [IdleFetch EXCEPT !.pc = "readPosts",
                                                         !.before = IF lastFull THEN since
                                                                ELSE since \cup {"partial"}]]
              /\ since' = {}
    /\ UNCHANGED <<storeVars, wk, feeds, lastFull, engineVars, tw, auxVars>>

\* Post.find({ publishedAt: { $gte: now - 72h } }).select('title url').
RecentPosts(P) == {p \in P : p.recent}

RssReadPosts(f) ==
    /\ rss[f].pc = "readPosts"
    /\ rss' = [rss EXCEPT ![f] =
                 [@ EXCEPT !.pc = "readQueue",
                           !.titles = {p.title : p \in RecentPosts(posts)},
                           !.snap = {p.url : p \in RecentPosts(posts)}]]
    /\ UNCHANGED <<storeVars, wk, isRSSFetching, feeds, lastFull, engineVars, since, tw, auxVars>>

\* The source to parse after src, or the end of the cycle.
AfterSource(run) ==
    IF run.src < Len(feeds)
      THEN [run EXCEPT !.pc = "parse", !.src = run.src + 1, !.k = 0, !.items = <<>>]
      ELSE [run EXCEPT !.pc = "finish", !.k = 0, !.items = <<>>]

\* The entry to look at after k, or the next source.
AfterEntry(run) ==
    IF run.k < Len(run.items) THEN [run EXCEPT !.k = run.k + 1] ELSE AfterSource(run)

\* Queue.find().select('text url'), then existingTitles and existingUrls.
RssReadQueue(f) ==
    /\ rss[f].pc = "readQueue"
    /\ LET qTitles == {TitleOfText(queue[k].text) : k \in 1..Len(queue)}
           qUrls   == {queue[k].url : k \in 1..Len(queue)}
           raw     == rss[f].snap \cup qUrls
       IN  rss' = [rss EXCEPT ![f] =
                     AfterSource([@ EXCEPT !.titles = FilterTruthy(@ \cup qTitles),
                                           !.urls = {normalizeUrl(u) : u \in raw},
                                           !.snap = raw,
                                           !.src = 0])]
    /\ UNCHANGED <<storeVars, wk, isRSSFetching, feeds, lastFull, engineVars, since, tw, auxVars>>

\* A throw inside the loop body, were there no try around it: the outer
\* catch ends the cycle.
FeedFailedAborting(run) == [run EXCEPT !.pc = "finish", !.k = 0, !.items = <<>>]

\* A throw inside the per-feed try: its catch logs and the loop goes on with
\* the next source.
FeedFailed(run) == AfterSource(run)

\* rssParser.parseURL(feedSource.url): the feed's first entries, or a
\* failure that the per-feed catch logs.
RssParse(f) ==
    /\ rss[f].pc = "parse"
    /\ \E ok \in BOOLEAN :
          rss' = [rss EXCEPT ![f] =
                    IF ok
                      THEN AfterEntry([@ EXCEPT !.pc = "items", !.k = 0,
                                                !.items = Take(feeds[rss[f].src], FeedSlice),
                                                !.parsed = @ \cup {rss[f].src}])
                      ELSE FeedFailed(@)]
    /\ UNCHANGED <<storeVars, wk, isRSSFetching, feeds, lastFull, engineVars, since, tw, auxVars>>

\* After an entry is enqueued: existingTitles.push, existingUrls.add.
RememberNothing(run, title, cleanLink) == run

RememberUrlOnly(run, title, cleanLink) ==
    [run EXCEPT !.urls = @ \cup {cleanLink}]

RememberTitleOnly(run, title, cleanLink) ==
    [run EXCEPT !.titles = @ \cup {title}]

Remember(run, title, cleanLink) ==
    [run EXCEPT !.titles = @ \cup {title}, !.urls = @ \cup {cleanLink}]

\* One entry of the feed in hand: skipped on a known normalized link or a
\* title alike a known one, else saved to the queue and remembered.
RssItem(f) ==
    /\ rss[f].pc = "items"
    /\ LET run       == rss[f]
           item      == run.items[run.k]
           cleanLink == normalizeUrl(item.link)
           skip      == \/ cleanLink \in run.urls
                        \/ IsTitleDuplicate(item.title, run.titles)
       IN  IF skip
             THEN /\ rss' = [rss EXCEPT ![f] = AfterEntry(run)]
                  /\ UNCHANGED <<queue, nextOid>>
             ELSE /\ nextOid <= MaxOid
                  /\ queue' = Append(queue,
                         QueueDoc(nextOid, nextOid, RssText(item.title, <<>>),
                                  item.link, FeedName(run.src)))
                  /\ nextOid' = nextOid + 1
                  /\ rss' = [rss EXCEPT ![f] =
                               AfterEntry(Remember([run EXCEPT !.total = @ + 1,
                                                               !.enq = @ \cup {<<run.src, run.k>>}],
                                                   item.title, cleanLink))]
    /\ UNCHANGED <<posts, wk, isRSSFetching, feeds, lastFull, engineVars, since, tw, auxVars>>

\* newItem.save() throws for the entry in hand: the per-feed catch logs, the
\* rest of this feed is left.
RssItemFails(f) ==
    /\ rss[f].pc = "items"
    /\ LET run  == rss[f]
           item == run.items[run.k]
       IN  /\ normalizeUrl(item.link) \notin run.urls
           /\ ~IsTitleDuplicate(item.title, run.titles)
           /\ rss' = [rss EXCEPT ![f] = FeedFailed([run EXCEPT !.threw = @ \cup {run.src}])]
    /\ UNCHANGED <<storeVars, wk, isRSSFetching, feeds, lastFull, engineVars, since, tw, auxVars>>

\* A read of the store throws, the cycle returning with the lock held (as
\* it would without the finally).
RssReadFailsHolding(f) ==
    /\ rss[f].pc \in {"readPosts", "readQueue"}
    /\ rss' = [rss EXCEPT ![f] = [IdleFetch EXCEPT !.pc = "returned"]]
    /\ UNCHANGED <<storeVars, wk, isRSSFetching, feeds, lastFull, engineVars, since, tw, auxVars>>

\* Post.find or Queue.find throws: the outer catch logs, then the finally.
RssReadFails(f) ==
    /\ rss[f].pc \in {"readPosts", "readQueue"}
    /\ rss' = [rss EXCEPT ![f] = [@ EXCEPT !.pc = "finish", !.src = 0]]
    /\ UNCHANGED <<storeVars, wk, isRSSFetching, feeds, lastFull, engineVars, since, tw, auxVars>>

\* finally { isRSSFetching = false }; return totalQueued.
RssFinish(f) ==
    /\ rss[f].pc = "finish"
    /\ isRSSFetching' = FALSE
    /\ rss' = [rss EXCEPT ![f] = [IdleFetch EXCEPT !.pc = "returned",
                                                    !.ret = rss[f].total,
                                                    !.src = rss[f].src]]
    /\ lastFull' = (rss[f].parsed = DOMAIN feeds)
    /\ UNCHANGED <<storeVars, wk, feeds, engineVars, since, tw, auxVars>>

\* The caller has the count.
RssReturn(f) ==
    /\ rss[f].pc = "returned"
    /\ rss' = [rss EXCEPT ![f] = IdleFetch]
    /\ UNCHANGED <<storeVars, wk, isRSSFetching, feeds, lastFull, engineVars, since, tw, auxVars>>

FeedFetcher(f) ==
    \/ RssEnter(f)
    \/ RssReadPosts(f)
    \/ RssReadQueue(f)
    \/ RssParse(f)
    \/ RssItem(f)
    \/ RssFinish(f)
    \/ RssReturn(f)

\* ------------------------------------------------------------------------
\* Social Fetcher
\* ------------------------------------------------------------------------

\* tweets.slice(0, 5): the tweets read of one handle.
TweetSlice == 5

\* The cycles in flight at once: the scheduled job and
\* GET /api/trigger-auto-fetch.
Cycles == {1, 2}

\* TARGET_HANDLES.
Handles == <<"handle1", "handle2">>

\* A tweet of the API: its numeric id, its text and its url.
TweetNames == <<"t1", "t2", "t3", "t4", "t5", "t6", "t7">>

TweetIdBase == 100

Tweet(n) ==
    [id |-> TweetIdBase + n, text |-> <<TweetNames[n]>>, url |-> <<"X", "/", TweetNames[n]>>]

\* What the API answers for a handle, newest first: a failure (a response
\* that is not ok, or a thrown error), or the handle's tweets.
ApiFailure == [ok |-> FALSE, tweets |-> <<>>]

ApiTweets(tweets) == [ok |-> TRUE, tweets |-> tweets]

Responses(h) ==
    IF h = 1
      THEN {ApiFailure, ApiTweets(<<>>), ApiTweets(<<Tweet(1)>>),
            ApiTweets(<<Tweet(2), Tweet(1)>>),
            ApiTweets(<<Tweet(2), Tweet(1), Tweet(6), Tweet(5), Tweet(4), Tweet(3)>>)}
      ELSE {ApiFailure, ApiTweets(<<Tweet(7)>>)}

SeqIds(tweets) == {tweets[k].id : k \in 1..Len(tweets)}

\* A cycle: where it is; the handle in hand; its tweets, postedIds and
\* newTweets; the sum returned; and as history the ids the last insertMany
\* inserted, whether it threw, the ids of its tweets that neither a
\* QueueItem nor a Post carried when it ran (unseen), and the ids of its
\* tweets that the Worker had published when they were received (published).
IdleCycle ==
    [pc |-> "idle", h |-> 0, tweets |-> <<>>, postedIds |-> {}, newTweets |-> <<>>,
     total |-> 0, inserted |-> {}, threw |-> FALSE, unseen |-> {}, published |-> {}]

\* The tweets among tweets that a Post built by the Worker came from.
PublishedIds(tweets, P) ==
    {tweets[k].id : k \in {j \in 1..Len(tweets) :
                               \E p \in P : p.from # 0 /\ p.url = tweets[j].url}}

\* The handle after h, or the end of the cycle; n is what the call for h
\* returned.
AfterHandle(c, n) ==
    IF c.h < Len(Handles)
      THEN [c EXCEPT !.pc = "fetch", !.h = c.h + 1, !.total = c.total + n]
      ELSE [c EXCEPT !.pc = "returned", !.total = c.total + n]

\* The call for the handle throwing to fetchAllTwitterHandles, were there no
\* try in it: the loop over the handles is left.
HandleFailedThrowing(c) == [c EXCEPT !.pc = "returned"]

\* `if (!response.ok) return 0`, `if (tweets.length === 0) return 0`, and the
\* catch's `return 0` when fetch or response.json() threw.
HandleFailed(c) == AfterHandle(c, 0)

\* fetchAllTwitterHandles is called.
TwStart(c) ==
    /\ tw[c].pc = "idle"
    /\ \A o \in Cycles : o < c => tw[o].pc # "idle"
    /\ tw' = [tw EXCEPT ![c] = [IdleCycle EXCEPT !.pc = "fetch", !.h = 1]]
    /\ UNCHANGED <<storeVars, wk, feedVars, engineVars, since, auxVars>>

\* The API call for the handle: returns 0 on a failure or without tweets.
TwFetch(c) ==
    /\ tw[c].pc = "fetch"
    /\ \E resp \in Responses(tw[c].h) :
          LET cleared == [tw[c] EXCEPT !.tweets = <<>>, !.postedIds = {},
                                       !.newTweets = <<>>, !.inserted = {},
                                       !.threw = FALSE, !.unseen = {},
                                       !.published = {}]
          IN  tw' = [tw EXCEPT ![c] =
                       IF ~resp.ok \/ Take(resp.tweets, TweetSlice) = <<>>
                         THEN HandleFailed(cleared)
                         ELSE [cleared EXCEPT !.pc = "readPosts",
                                              !.tweets = Take(resp.tweets, TweetSlice),
                                              !.published =
                                                  PublishedIds(Take(resp.tweets, TweetSlice),
                                                               posts)]]
    /\ UNCHANGED <<storeVars, wk, feedVars, engineVars, since, auxVars>>

\* Post.find({ tweetId: { $in: ids } }).distinct("tweetId").
TwReadPosts(c) ==
    /\ tw[c].pc = "readPosts"
    /\ tw' = [tw EXCEPT ![c] =
                [@ EXCEPT !.pc = "readQueue",
                          !.postedIds = {p.tweetId : p \in posts} \cap SeqIds(tw[c].tweets)]]
    /\ UNCHANGED <<storeVars, wk, feedVars, engineVars, since, auxVars>>

\* Queue.find({ id: { $in: ids } }).distinct("id"), then the filter: returns
\* 0 when nothing is new.
TwReadQueue(c) ==
    /\ tw[c].pc = "readQueue"
    /\ LET queuedIds  == {queue[k].id : k \in 1..Len(queue)} \cap SeqIds(tw[c].tweets)
           ignoredIds == tw[c].postedIds \cup queuedIds
           newTweets  == SelectSeq(tw[c].tweets, LAMBDA t : t.id \notin ignoredIds)
       IN  tw' = [tw EXCEPT ![c] =
                    IF newTweets = <<>> THEN AfterHandle(@, 0)
                    ELSE [@ EXCEPT !.pc = "insert", !.newTweets = newTweets]]
    /\ UNCHANGED <<storeVars, wk, feedVars, engineVars, since, auxVars>>

\* The documents of docs that an ordered insertMany inserts into q: those
\* before the first whose id is taken (the unique index on id).
RECURSIVE InsertedPrefix(_, _)
InsertedPrefix(docs, taken) ==
    IF docs = <<>> \/ Head(docs).id \in taken THEN <<>>
    ELSE <<Head(docs)>> \o InsertedPrefix(Tail(docs), taken \cup {Head(docs).id})

\* Queue.insertMany(queueDocs): returns newTweets.length, or 0 from the
\* catch when the insert threw.
TwInsert(c) ==
    /\ tw[c].pc = "insert"
    /\ LET new  == tw[c].newTweets
           done == InsertedPrefix(new, {queue[k].id : k \in 1..Len(queue)})
           docs == [k \in 1..Len(done) |->
                      QueueDoc(nextOid + k - 1, done[k].id, done[k].text, done[k].url,
                               "Manual")]
       IN  /\ nextOid + Len(done) - 1 <= MaxOid
           /\ queue' = queue \o docs
           /\ nextOid' = nextOid + Len(done)
           /\ tw' = [tw EXCEPT ![c] =
                       AfterHandle([@ EXCEPT !.inserted = SeqIds(done),
                                             !.threw = Len(done) < Len(new),
                                             !.unseen = SeqIds(tw[c].tweets)
                                                 \ ({queue[k].id : k \in 1..Len(queue)}
                                                     \cup {p.tweetId : p \in posts})],
                                   IF Len(done) < Len(new) THEN 0 ELSE Len(new))]
    /\ UNCHANGED <<posts, wk, feedVars, engineVars, since, auxVars>>

\* The caller has the sum.
TwReturn(c) ==
    /\ tw[c].pc = "returned"
    /\ tw' = [tw EXCEPT ![c] = IdleCycle]
    /\ UNCHANGED <<storeVars, wk, feedVars, engineVars, since, auxVars>>

SocialFetcher(c) ==
    \/ TwStart(c)
    \/ TwFetch(c)
    \/ TwReadPosts(c)
    \/ TwReadQueue(c)
    \/ TwInsert(c)
    \/ TwReturn(c)

\* ------------------------------------------------------------------------
\* Source Registry
\* ------------------------------------------------------------------------

\* The sources there can be: one handle and one feed, each named by its
\* unique key (the handle, the url).
TwitterKeys == {"h"}

RssKeys == {"f"}

SourceKeys == TwitterKeys \cup RssKeys

\* find({ isActive: true }) of a collection, mapped as loadSources maps it.
ActiveKeys(store, keys) == {k \in keys : store[k] = "active"}

\* The Source requests in flight at once; slot 0 is the reload the process
\* start awaits.
Reqs == {1, 2}

Loaders == {0} \cup Reqs

\* A request: where it is, what it does to which source, the isActive of an
\* update's body, the handles loadSources has read, whether its catch ran,
\* and the status answered.
IdleReq == [pc |-> "idle", op |-> "none", key |-> "h", isActive |-> FALSE,
            twitterSources |-> {}, caught |-> FALSE, status |-> 0]

\* What the Source requests leave alone.
restOfRegistry ==
    <<storeVars, wk, feedVars, tw, engineVars, since, call, boot, tagVars, removed>>

\* A store operation can fail; the request's catch answers 500.
Fails(q) ==
    /\ crud' = [crud EXCEPT ![q] = [@ EXCEPT !.pc = "respond", !.status = 500]]
    /\ UNCHANGED <<sourceStore, TARGET_HANDLES, RSS_FEEDS>>

\* A request arrives (add, update, delete), or a scheduled job calls
\* loadSources before its fetch.
CrudStart(q) ==
    /\ crud[q].pc = "idle"
    /\ \A o \in Reqs : o < q => crud[o].pc # "idle"
    /\ \E op \in {"add", "update", "delete", "reload"}, key \in SourceKeys, a \in BOOLEAN :
          crud' = [crud EXCEPT ![q] =
                     [IdleReq EXCEPT !.op = op,
                                     !.key = IF op = "reload" THEN "h" ELSE key,
                                     !.isActive = (op = "update" /\ a),
                                     !.pc = CASE op = "add" -> "findOne"
                                              [] op = "update" -> "findById"
                                              [] op = "delete" -> "deleteOne"
                                              [] OTHER -> "loadTwitter"]]
    /\ UNCHANGED <<sourceStore, TARGET_HANDLES, RSS_FEEDS>>
    /\ UNCHANGED restOfRegistry

\* add: Model.findOne by url or handle; 400 when it exists.
CrudFindOne(q) ==
    /\ crud[q].pc = "findOne"
    /\ \/ Fails(q)
       \/ /\ crud' = [crud EXCEPT ![q] =
                        IF sourceStore[crud[q].key] # "absent"
                          THEN [@ EXCEPT !.pc = "respond", !.status = 400]
                          ELSE [@ EXCEPT !.pc = "save"]]
          /\ UNCHANGED <<sourceStore, TARGET_HANDLES, RSS_FEEDS>>
    /\ UNCHANGED restOfRegistry

\* update: Model.findById; 404 when there is none.
CrudFindById(q) ==
    /\ crud[q].pc = "findById"
    /\ \/ Fails(q)
       \/ /\ crud' = [crud EXCEPT ![q] =
                        IF sourceStore[crud[q].key] = "absent"
                          THEN [@ EXCEPT !.pc = "respond", !.status = 404]
                          ELSE [@ EXCEPT !.pc = "save"]]
          /\ UNCHANGED <<sourceStore, TARGET_HANDLES, RSS_FEEDS>>
    /\ UNCHANGED restOfRegistry

\* source.save(): an add inserts the source active (E11000 when the key got
\* there meanwhile), an update writes the body's isActive (and throws when
\* the document is gone).
CrudSave(q) ==
    /\ crud[q].pc = "save"
    /\ \/ Fails(q)
       \/ /\ (crud[q].op = "add") # (sourceStore[crud[q].key] # "absent")
          /\ sourceStore' = [sourceStore EXCEPT ![crud[q].key] =
                                IF crud[q].op = "add" \/ crud[q].isActive
                                  THEN "active" ELSE "inactive"]
          /\ crud' = [crud EXCEPT ![q] = [@ EXCEPT !.pc = "loadTwitter"]]
          /\ UNCHANGED <<TARGET_HANDLES, RSS_FEEDS>>
    /\ UNCHANGED restOfRegistry

\* delete: Model.deleteOne({ _id: id }).
CrudDeleteOne(q) ==
    /\ crud[q].pc = "deleteOne"
    /\ \/ Fails(q)
       \/ /\ sourceStore' = [sourceStore EXCEPT ![crud[q].key] = "absent"]
          /\ crud' = [crud EXCEPT ![q] = [@ EXCEPT !.pc = "loadTwitter"]]
          /\ UNCHANGED <<TARGET_HANDLES, RSS_FEEDS>>
    /\ UNCHANGED restOfRegistry

\* What a caller of loadSources does when it has returned: a request answers
\* 200.
Loaded(req) ==
    [req EXCEPT !.pc = "respond",
                !.status = IF req.op \in {"reload", "boot"} THEN 0 ELSE 200]

\* loadSources, first read, with TARGET_HANDLES assigned as soon as it is
\* read.
LoadTwitterAssigning(q) ==
    /\ crud[q].pc = "loadTwitter"
    /\ \/ /\ crud' = [crud EXCEPT ![q] = Loaded([@ EXCEPT !.caught = TRUE])]
          /\ UNCHANGED <<sourceStore, TARGET_HANDLES, RSS_FEEDS>>
       \/ /\ crud' = [crud EXCEPT ![q] =
                        [@ EXCEPT !.pc = "loadRss",
                                  !.twitterSources = ActiveKeys(sourceStore, TwitterKeys)]]
          /\ TARGET_HANDLES' = ActiveKeys(sourceStore, TwitterKeys)
          /\ UNCHANGED <<sourceStore, RSS_FEEDS>>
    /\ UNCHANGED restOfRegistry

\* loadSources: await TwitterSource.find({ isActive: true }).  When the read
\* throws, the catch logs and loadSources returns.
LoadTwitter(q) ==
    /\ crud[q].pc = "loadTwitter"
    /\ \/ crud' = [crud EXCEPT ![q] = Loaded([@ EXCEPT !.caught = TRUE])]
       \/ crud' = [crud EXCEPT ![q] =
                     [@ EXCEPT !.pc = "loadRss",
                               !.twitterSources = ActiveKeys(sourceStore, TwitterKeys)]]
    /\ UNCHANGED <<sourceStore, TARGET_HANDLES, RSS_FEEDS>>
    /\ UNCHANGED restOfRegistry

\* loadSources: await RSSSource.find({ isActive: true }), then both lists are
\* assigned and loadSources returns.  When the read throws, the catch logs
\* and loadSources returns.
LoadRss(q) ==
    /\ crud[q].pc = "loadRss"
    /\ \/ /\ crud' = [crud EXCEPT ![q] = Loaded([@ EXCEPT !.caught = TRUE])]
          /\ UNCHANGED <<sourceStore, TARGET_HANDLES, RSS_FEEDS>>
       \/ /\ TARGET_HANDLES' = crud[q].twitterSources
          /\ RSS_FEEDS' = ActiveKeys(sourceStore, RssKeys)
          /\ crud' = [crud EXCEPT ![q] = Loaded(@)]
          /\ UNCHANGED sourceStore
    /\ UNCHANGED restOfRegistry

\* The response is sent (or the scheduled job goes on to its fetch).
CrudRespond(q) ==
    /\ crud[q].pc = "respond"
    /\ crud[q].op # "boot"
    /\ crud' = [crud EXCEPT ![q] = IdleReq]
    /\ UNCHANGED <<sourceStore, TARGET_HANDLES, RSS_FEEDS>>
    /\ UNCHANGED restOfRegistry

Registry(q) ==
    \/ CrudStart(q)
    \/ CrudFindOne(q)
    \/ CrudFindById(q)
    \/ CrudSave(q)
    \/ CrudDeleteOne(q)
    \/ LoadTwitter(q)
    \/ LoadRss(q)
    \/ CrudRespond(q)

\* ------------------------------------------------------------------------
\* Tags
\* ------------------------------------------------------------------------

\* The calls of getOrCreateTags in flight at once.
TagCalls == {1, 2}

\* slug.replace(/ /g, "-").
HyphenForSpace(s) == [i \in 1..Len(s) |-> IF s[i] = " " THEN "-" ELSE s[i]]

\* \w and the hyphen: what replace(/[^\w-]+/g, "") keeps.
WordChars == {"a", "b", "c", "-", "_"}

\* name.toLowerCase().replace(/ /g, "-").replace(/[^\w-]+/g, "").
Slugify(name) ==
    SelectSeq(HyphenForSpace(ToLower(name)), LAMBDA ch : ch \in WordChars)

\* Tag names: two that give the slug "a-b", one that gives "c", one that
\* gives the empty slug.
NameAB   == <<"A", " ", "B">>
NameAhB  == <<"a", "-", "b">>
NameC    == <<"c">>
NameBang == <<"!">>

TagNameLists == {<<NameAB>>, <<NameAhB>>, <<NameAB, NameC>>, <<NameBang, NameC>>}

\* A Tag document; its _id is the order it was created in.
Tag(id, name, slug) == [id |-> id, name |-> name, slug |-> slug]

\* A call: where it is, its names and the index of the one in hand, the
\* tagIds pushed so far; and as history the slugs that existed when it began
\* and the ids of the Tags it created.
IdleTagCall ==
    [pc |-> "idle", tagNames |-> <<>>, i |-> 0, tagIds |-> <<>>, existed |-> {},
     created |-> {}]

\* The next name, or the return of tagIds.
NextName(c) ==
    IF c.i < Len(c.tagNames) THEN [c EXCEPT !.pc = "findOne", !.i = c.i + 1]
    ELSE [c EXCEPT !.pc = "returned"]

\* Tag.create with no unique index on the collection: valid documents are
\* always inserted.
CreateOutcomeUnindexed(name, slug, T) ==
    IF slug = <<>> THEN "invalid" ELSE "created"

\* Tag.create({ name, slug }): name and slug are required (an empty string
\* does not pass) and each has a unique index.
CreateOutcome(name, slug, T) ==
    IF slug = <<>> \/ name = <<>> THEN "invalid"
    ELSE IF \E t \in T : t.slug = slug \/ t.name = name THEN "conflict"
    ELSE "created"

\* getOrCreateTags(tagNames) is called with an array.
TgStart(c) ==
    /\ tg[c].pc = "idle"
    /\ \A o \in TagCalls : o < c => tg[o].pc # "idle"
    /\ \E names \in TagNameLists :
          tg' = [tg EXCEPT ![c] = [IdleTagCall EXCEPT !.pc = "findOne", !.tagNames = names,
                                                      !.i = 1,
                                                      !.existed = {t.slug : t \in tags}]]
    /\ UNCHANGED <<tags, removed, storeVars, wk, feedVars, tw, engineVars, since, call,
                   registryVars, boot>>

\* Tag.findOne({ slug }): the id is pushed when a Tag has the slug.
TgFindOne(c) ==
    /\ tg[c].pc = "findOne"
    /\ LET slug == Slugify(tg[c].tagNames[tg[c].i])
       IN  tg' = [tg EXCEPT ![c] =
                    IF \E t \in tags : t.slug = slug
                      THEN NextName([@ EXCEPT !.tagIds =
                                        Append(@, (CHOOSE t \in tags : t.slug = slug).id)])
                      ELSE [@ EXCEPT !.pc = "create"]]
    /\ UNCHANGED <<tags, removed, storeVars, wk, feedVars, tw, engineVars, since, call,
                   registryVars, boot>>

\* Tag.create({ name, slug }): the id is pushed; when it throws the catch
\* logs and the loop goes on.
TgCreate(c) ==
    /\ tg[c].pc = "create"
    /\ LET name == tg[c].tagNames[tg[c].i]
           slug == Slugify(name)
           id   == Cardinality(tags) + 1
       IN  IF CreateOutcome(name, slug, tags) = "created"
             THEN /\ tags' = tags \cup {Tag(id, name, slug)}
                  /\ tg' = [tg EXCEPT ![c] =
                               NextName([@ EXCEPT !.tagIds = Append(@, id),
                                                  !.created = @ \cup {id}])]
             ELSE /\ tags' = tags
                  /\ tg' = [tg EXCEPT ![c] = NextName(@)]
    /\ UNCHANGED <<removed, storeVars, wk, feedVars, tw, engineVars, since, call,
                   registryVars, boot>>

\* The caller has tagIds.
TgReturn(c) ==
    /\ tg[c].pc = "returned"
    /\ tg' = [tg EXCEPT ![c] = IdleTagCall]
    /\ UNCHANGED <<tags, removed, storeVars, wk, feedVars, tw, engineVars, since, call,
                   registryVars, boot>>

getOrCreateTags(c) ==
    \/ TgStart(c)
    \/ TgFindOne(c)
    \/ TgCreate(c)
    \/ TgReturn(c)

\* ------------------------------------------------------------------------
\* Process start
\* ------------------------------------------------------------------------

\* The generation-service credential, the content-store connection string and
\* the social-API credential, by the names the environment gives them.
Credentials == {"GEMINI_API_KEY", "MONGO_URI", "TWITTER_API_KEY"}

\* What the process start leaves alone.
restOfBoot == <<storeVars, wk, feedVars, tw, engineVars, since, call, tagVars, removed>>

\* node index.js or node server.js, in some environment.
BootStart ==
    /\ boot.pc = "off"
    /\ \E entry \in {"index", "server"}, env \in SUBSET Credentials :
          boot' = [NoBoot EXCEPT !.entry = entry, !.env = env,
                                 !.pc = IF entry = "index" THEN "validate" ELSE "connectDB"]
    /\ UNCHANGED <<registryVars, restOfBoot>>

\* index.js: if (!GEMINI_API_KEY || !MONGO_URI || !TWITTER_API_IO_KEY)
\* process.exit(1).
BootValidate ==
    /\ boot.pc = "validate"
    /\ boot' = [boot EXCEPT !.pc = IF boot.env = Credentials THEN "connect" ELSE "exited"]
    /\ UNCHANGED <<registryVars, restOfBoot>>

\* index.js: mongoose.connect(MONGO_URI) is started; its then and catch log.
BootConnect ==
    /\ boot.pc = "connect"
    /\ boot' = [boot EXCEPT !.pc = "cron", !.db = "pending"]
    /\ UNCHANGED <<registryVars, restOfBoot>>

\* server.js: connectDB(), not awaited.  Its file is not in the repository
\* as given; it is taken to end the process when the connection string is
\* missing.
BootConnectDB ==
    /\ boot.pc = "connectDB"
    /\ boot' = IF "MONGO_URI" \in boot.env
                THEN [boot EXCEPT !.pc = "loadSources", !.db = "pending"]
                ELSE [boot EXCEPT !.pc = "exited"]
    /\ UNCHANGED <<registryVars, restOfBoot>>

\* The connection is made or refused.
BootDbSettles ==
    /\ boot.db = "pending"
    /\ \E d \in {"connected", "failed"} : boot' = [boot EXCEPT !.db = d]
    /\ UNCHANGED <<registryVars, restOfBoot>>

\* server.js: await loadSources().
BootLoadSources ==
    /\ boot.pc = "loadSources"
    /\ boot' = [boot EXCEPT !.pc = "awaitLoad"]
    /\ crud' = [crud EXCEPT ![0] = [IdleReq EXCEPT !.op = "boot", !.pc = "loadTwitter"]]
    /\ UNCHANGED <<sourceStore, TARGET_HANDLES, RSS_FEEDS, restOfBoot>>

\* loadSources has returned; the routes are mounted.
BootLoaded ==
    /\ boot.pc = "awaitLoad"
    /\ crud[0].pc = "respond"
    /\ boot' = [boot EXCEPT !.pc = "cron"]
    /\ crud' = [crud EXCEPT ![0] = IdleReq]
    /\ UNCHANGED <<sourceStore, TARGET_HANDLES, RSS_FEEDS, restOfBoot>>

\* The scheduled jobs are registered (cron.schedule; initCronJobs()).
BootCron ==
    /\ boot.pc = "cron"
    /\ boot' = [boot EXCEPT !.pc = "listen", !.cron = TRUE]
    /\ UNCHANGED <<registryVars, restOfBoot>>

\* app.listen(PORT).
BootListen ==
    /\ boot.pc = "listen"
    /\ boot' = [boot EXCEPT !.pc = "running", !.listening = TRUE]
    /\ UNCHANGED <<registryVars, restOfBoot>>

Boot ==
    \/ BootStart
    \/ BootValidate
    \/ BootConnect
    \/ BootConnectDB
    \/ BootDbSettles
    \/ BootLoadSources
    \/ BootLoaded
    \/ BootCron
    \/ BootListen

\* ------------------------------------------------------------------------
\* Time
\* ------------------------------------------------------------------------

\* 72 hours go by with nothing in flight: every Post is now older than the
\* Feed Fetcher's window.
Pass72Hours ==
    /\ \A r \in Runs : wk[r].pc = "idle"
    /\ \A f \in Fetches : rss[f].pc = "idle"
    /\ \A c \in Cycles : tw[c].pc = "idle"
    /\ \E p \in posts : p.recent
    /\ posts' = {[p EXCEPT !.recent = FALSE] : p \in posts}
    /\ since' = since \cup {"aged"}
    /\ UNCHANGED <<queue, nextOid, wk, feedVars, engineVars, tw, auxVars>>

\* ------------------------------------------------------------------------
\* Specification
\* ------------------------------------------------------------------------

\* A Post that was in the store before: its title and url, and whether it
\* is inside the 72-hour window.
OldPost(title, url, recent) ==
    [title |-> title, url |-> url, tweetId |-> NoTweetId, recent |-> recent, from |-> 0,
     relatedStories |-> <<>>, categories |-> <<General>>, imageSearchSlug |-> <<>>,
     type |-> "normal_post", videoUrl |-> NullUrl]

\* The state the process starts in: Posts P, feeds serving F, Sources S and
\* the QueueItems Q in the store, nothing in flight.
InitState(P, F, S, Q) ==
    /\ queue = Q
    /\ posts = P
    /\ nextOid = Len(Q) + 1
    /\ wk = [r \in Runs |-> IdleRun]
    /\ isRSSFetching = FALSE
    /\ rss = [f \in Fetches |-> IdleFetch]
    /\ feeds = F
    /\ tw = [c \in Cycles |-> IdleCycle]
    /\ nulled = {}
    /\ reEngine = {}
    /\ since = {}
    /\ lastFull = FALSE
    /\ call = NoCall
    /\ sourceStore = S
    /\ TARGET_HANDLES = {}
    /\ RSS_FEEDS = {}
    /\ crud = [q \in Loaders |-> IdleReq]
    /\ boot = NoBoot
    /\ tags = {}
    /\ tg = [c \in TagCalls |-> IdleTagCall]
    /\ removed = {}

\* The start state with an empty queue.
InitAll(P, F, S) == InitState(P, F, S, <<>>)

\* The start state with no Source in the store.
InitWith(P, F) == InitAll(P, F, [k \in SourceKeys |-> "absent"])

\* QueueItems left in the store by earlier requests, oldest first, given by
\* their urls (the empty url is that of a pasted text).
Backlog(urls) ==
    [k \in 1..Len(urls) |-> QueueDoc(k, k, Content, urls[k], "Manual Paste")]

\* The backlogs tried: four items with a link met twice; four pasted texts
\* with two items of one link behind them.
LinkedBacklog == <<UrlA, UrlB, UrlA, UrlAQ>>

PastedBacklog == << <<>>, <<>>, <<>>, <<>>, UrlB, UrlB>>

\* The drain of a backlog: runs overlapping, nothing enqueued meanwhile.
InitBacklog ==
    InitState({}, << <<>>, <<>> >>, [k \in SourceKeys |-> "absent"], Backlog(LinkedBacklog))

NextBacklog == \E r \in Runs : Worker(r)

SpecBacklog == InitBacklog /\ [][NextBacklog]_vars

\* The drain of pasted texts: one run after the other.
InitPasted ==
    InitState({}, << <<>>, <<>> >>, [k \in SourceKeys |-> "absent"], Backlog(PastedBacklog))

NextPasted == Worker(1)

SpecPasted == InitPasted /\ [][NextPasted]_vars

\* The same with the schedule firing again and again and every awaited call
\* returning: a run that can take a step takes it.
LiveSpecPasted == SpecPasted /\ WF_vars(Worker(1))

\* The drain: the manual endpoint and the Worker, runs overlapping.
InitDrain == InitWith({}, << <<>>, <<>> >>)

NextDrain ==
    \/ AddContentToQueue
    \/ \E r \in Runs : Worker(r)

SpecDrain == InitDrain /\ [][NextDrain]_vars

\* Items with related stories: the bulk endpoint and one drain run at a time.
InitStories == InitWith({}, << <<>>, <<>> >>)

NextStories ==
    \/ AddRssToQueue
    \/ Worker(1)

SpecStories == InitStories /\ [][NextStories]_vars

\* The Source Registry: two requests overlapping, and scheduled reloads.
InitRegistry == InitWith({}, << <<>>, <<>> >>)

NextRegistry == \E q \in Reqs : Registry(q)

SpecRegistry == InitRegistry /\ [][NextRegistry]_vars

\* The Feed Fetcher with a store that can fail: two invocations.
InitFeedFaults ==
    \E F \in FeedScenarios :
      \E P \in {{}, {OldPost(TitleD, UrlB, TRUE)}} :
        InitWith(P, F)

NextFeedFaults ==
    \E f \in Fetches :
        \/ FeedFetcher(f)
        \/ RssReadFails(f)
        \/ RssItemFails(f)

SpecFeedFaults == InitFeedFaults /\ [][NextFeedFaults]_vars

\* The drain with a store that can fail: the manual endpoint and one run.
NextDrainFaults ==
    \/ AddContentToQueue
    \/ Worker(1)
    \/ WkThrows(1)

SpecDrainFaults == InitDrain /\ [][NextDrainFaults]_vars

\* The last-mile lookup on its own: one drain run over two queued items, with
\* one Post in the store (or none).  The Posts' urls: with a query, with
\* another letter case, the empty string of a pasted text, none at all (a
\* document without the field); the items' urls: plain, of another page, none,
\* with a fragment, and one that new URL() cannot parse.
DedupPosts ==
    {OldPost(TitleD, u, TRUE) : u \in {UrlA, UrlAQ, UrlUpper, <<>>, UNDEF}}

DedupUrls == {UrlA, UrlB, UrlAF, UrlRel, <<>>}

InitDedup ==
    \E P \in {{}} \cup {{p} : p \in DedupPosts} :
        \E u1, u2 \in DedupUrls :
            InitState(P, << <<>>, <<>> >>, [k \in SourceKeys |-> "absent"],
                      Backlog(<<u1, u2>>))

NextDedup == Worker(1)

SpecDedup == InitDedup /\ [][NextDedup]_vars

\* Publication on its own: one drain run over two queued articles, in the
\* process index.js starts or in the one server.js starts.  The articles'
\* urls: a page, none, the site's root, a path that is only ".html", and one
\* that new URL() cannot parse.
UrlRoot == <<"H", "/">>
UrlHtml == <<"H", "/", ".", "h", "t", "m", "l">>

ArticleUrls == {UrlA, <<>>, UrlRoot, UrlHtml, UrlRel}

Running(entry) ==
    [NoBoot EXCEPT !.pc = "running", !.entry = entry, !.env = Credentials,
                   !.db = "connected", !.cron = TRUE, !.listening = TRUE]

InitPublish ==
    \E entry \in {"index", "server"} :
        \E u1, u2 \in ArticleUrls :
            /\ queue = <<QueueDoc(1, 1, Article, u1, "Manual"),
                         QueueDoc(2, 2, Article, u2, "Manual")>>
            /\ posts = {}
            /\ nextOid = 3
            /\ wk = [r \in Runs |-> IdleRun]
            /\ isRSSFetching = FALSE
            /\ rss = [f \in Fetches |-> IdleFetch]
            /\ feeds = << <<>>, <<>> >>
            /\ tw = [c \in Cycles |-> IdleCycle]
            /\ nulled = {}
            /\ reEngine = {}
            /\ since = {}
            /\ lastFull = FALSE
            /\ call = NoCall
            /\ sourceStore = [k \in SourceKeys |-> "absent"]
            /\ TARGET_HANDLES = {}
            /\ RSS_FEEDS = {}
            /\ crud = [q \in Loaders |-> IdleReq]
            /\ boot = Running(entry)
            /\ tags = {}
            /\ tg = [c \in TagCalls |-> IdleTagCall]
            /\ removed = {}

NextPublish == Worker(1)

\* Publication of items with media: a video's variants are a playlist and
\* two mp4 files, the one of lower bitrate first.
Playlist == Variant("application/x-mpegURL", 0, <<"V", "0">>)
Mp4Low   == Variant("video/mp4", 1, <<"V", "1">>)
Mp4High  == Variant("video/mp4", 2, <<"V", "2">>)

Photo     == Attachment("photo", <<>>)
Video     == Attachment("video", <<Playlist, Mp4Low, Mp4High>>)
VideoNoMp4 == Attachment("video", <<Playlist>>)

\* extendedEntities.media (none when absent) and media of an item.
Media(hasMedia, ext, media) ==
    [extendedEntities |-> [hasMedia |-> hasMedia, media |-> ext], media |-> media]

MediaCases ==
    {Media(FALSE, <<>>, <<>>),
     Media(TRUE, <<Photo>>, <<Photo>>),
     Media(TRUE, <<Video>>, <<Video>>),
     Media(TRUE, <<VideoNoMp4>>, <<VideoNoMp4>>),
     Media(TRUE, <<Photo, Video>>, <<Photo, Video>>),
     Media(FALSE, <<>>, <<Video>>),
     Media(TRUE, <<>>, <<Video>>)}

WithMedia(doc, m) ==
    [doc EXCEPT !.media = m.media, !.extendedEntities = m.extendedEntities]

InitVideo ==
    \E m1, m2 \in MediaCases :
        InitState({}, << <<>>, <<>> >>, [k \in SourceKeys |-> "absent"],
                  <<WithMedia(QueueDoc(1, 1, Article, UrlA, "Manual"), m1),
                    WithMedia(QueueDoc(2, 2, Article, UrlAQ, "Manual"), m2)>>)

NextVideo == Worker(1)

\* The admin's requests on the queue while one run after the other drains
\* three items, two of them of one page.
InitAdmin ==
    InitState({}, << <<>>, <<>> >>, [k \in SourceKeys |-> "absent"],
              Backlog(<<UrlA, UrlAQ, UrlB>>))

NextAdmin ==
    \/ clearQueue
    \/ deleteQueueItem
    \/ Worker(1)

SpecAdmin == InitAdmin /\ [][NextAdmin]_vars

\* Tags: calls of getOrCreateTags overlapping.
InitTags == InitWith({}, << <<>>, <<>> >>)

NextTags == \E c \in TagCalls : getOrCreateTags(c)

SpecTags == InitTags /\ [][NextTags]_vars

\* The Rewrite Engine's calls: two articles, each with the url of a page, of
\* a tweet, or none.
UrlTweet == <<"X", "/", "t1">>

InitScraper ==
    \E u1, u2 \in {UrlA, UrlB, UrlTweet, <<>>} :
        InitState({}, << <<>>, <<>> >>, [k \in SourceKeys |-> "absent"],
                  <<QueueDoc(1, 1, Article, u1, "Manual"),
                    QueueDoc(2, 2, Article, u2, "Manual")>>)

NextScraper == WorkerScraping(1)

SpecScraper == InitScraper /\ [][NextScraper]_vars

SpecVideo == InitVideo /\ [][NextVideo]_vars

SpecPublish == InitPublish /\ [][NextPublish]_vars

\* Both manual endpoints and one drain run at a time: items are drained in
\* sequence.
InitSequential == InitWith({}, << <<>>, <<>> >>)

NextSequential ==
    \/ AddContentToQueue
    \/ AddRssToQueue
    \/ Worker(1)

SpecSequential == InitSequential /\ [][NextSequential]_vars

\* The process start, with the reload it awaits, over the stores it can find.
InitBoot ==
    \E S \in [SourceKeys -> {"absent", "active", "inactive"}] :
        InitAll({}, << <<>>, <<>> >>, S)

NextBoot ==
    \/ Boot
    \/ LoadTwitter(0)
    \/ LoadRss(0)

SpecBoot == InitBoot /\ [][NextBoot]_vars

\* The manual endpoint in the forms the repository has it, and one drain run.
InitManual == InitWith({}, << <<>>, <<>> >>)

NextManual ==
    \/ AddContentToQueueUnbound
    \/ AddContentWithStories
    \/ addUrlToQueue
    \/ Worker(1)

SpecManual == InitManual /\ [][NextManual]_vars

\* The Feed Fetcher: two invocations, one drain run at a time, time.
InitFeed ==
    \E F \in FeedScenarios :
      \E P \in {{}, {OldPost(TitleD, UrlB, TRUE)}, {OldPost(TitleC, UrlAQF, FALSE)}} :
        InitWith(P, F)

NextFeed ==
    \/ \E f \in Fetches : FeedFetcher(f)
    \/ Worker(1)
    \/ Pass72Hours

SpecFeed == InitFeed /\ [][NextFeed]_vars

\* The Social Fetcher: two cycles.  Four tweets of the first handle are in
\* the store already, as Posts that carry their tweetId.
TweetPost(n) ==
    [title |-> TitleTe, url |-> Tweet(n).url, tweetId |-> Tweet(n).id, recent |-> FALSE,
     from |-> 0, relatedStories |-> <<>>, categories |-> <<General>>,
     imageSearchSlug |-> <<>>, type |-> "normal_post", videoUrl |-> NullUrl]

InitSocial ==
    InitWith({TweetPost(3), TweetPost(4), TweetPost(5), TweetPost(6)},
             << <<>>, <<>> >>)

NextSocial ==
    \/ \E c \in Cycles : SocialFetcher(c)
    \/ Worker(1)

SpecSocial == InitSocial /\ [][NextSocial]_vars

\* The Social Fetcher's cycles alone, nothing draining the queue.
NextCycles == \E c \in Cycles : SocialFetcher(c)

SpecCycles == InitSocial /\ [][NextCycles]_vars

\* The whole pipeline.
Init == InitFeed

Next ==
    \/ AddContentToQueue
    \/ \E f \in Fetches : FeedFetcher(f)
    \/ \E c \in Cycles : SocialFetcher(c)
    \/ \E r \in Runs : Worker(r)
    \/ Pass72Hours

Spec == Init /\ [][Next]_vars

\* ------------------------------------------------------------------------
\* Properties of the Publish Worker (checked under SpecDrain)
\* ------------------------------------------------------------------------

\* C1: after any sequence of enqueue operations and drain runs, no two Posts
\* share a normalized url and no two share a tweet id.
C1_PostsUnique ==
    \A p, q \in posts :
        p # q =>
            /\ (~IsFalsy(p.url) /\ ~IsFalsy(q.url)) => normalizeUrl(p.url) # normalizeUrl(q.url)
            /\ (p.tweetId # NoTweetId /\ q.tweetId # NoTweetId) => p.tweetId # q.tweetId

\* C2: every QueueItem of the batch a drain run read at its start is absent
\* from the queue once the run has finished with it, whatever the outcome.
C2_BatchItemsGone ==
    \A r \in Runs : \A k \in 1..Len(wk[r].batch) :
        (k < wk[r].i \/ wk[r].pc = "done") => wk[r].batch[k].oid \notin QueueOids

\* C3: when the save of the Post fails on a unique index, the QueueItem is
\* removed all the same, before the run goes on to the next item.
C3_ConflictItemGone ==
    \A r \in Runs :
        (wk[r].pc = "sleep" /\ wk[r].outcome = "conflict") => Item(r).oid \notin QueueOids

\* C4: a QueueItem whose normalized url is the url of an existing Post when
\* the Worker looks it up goes to deletion: the lookup sends the run to the
\* delete, and the delete takes the item out of the queue, adds no Post and
\* moves to the next item without a call of the Rewrite Engine.
C4_DuplicateDeleted ==
    [][\A r \in Runs :
          /\ (wk[r].pc = "dedup" /\ wk'[r].matched) => wk'[r].pc = "deleteDup"
          /\ (wk[r].pc = "deleteDup" /\ wk'[r] # wk[r]) =>
                /\ Item(r).oid \notin {queue'[k].oid : k \in 1..Len(queue')}
                /\ posts' = posts
                /\ nulled' = nulled
                /\ wk'[r].pc \in {"dedup", "done"}]_vars

\* C4 happens: a run is about to delete an item whose url differs from the
\* Post's url it duplicates (it has a query), found by the normalized url.
C4_Witness ==
    \E r \in Runs :
        /\ wk[r].pc = "deleteDup"
        /\ wk[r].matched
        /\ \A p \in posts : p.url # Item(r).url

\* C5: a QueueItem for which the Rewrite Engine returned null is deleted from
\* the queue, no Post is created for it, and it is never passed to the
\* Rewrite Engine again.
C5_NullDropped ==
    \A oid \in nulled :
        (\A r \in Runs : ~(wk[r].pc = "deleteNull" /\ Item(r).oid = oid)) =>
            /\ oid \notin QueueOids
            /\ oid \notin reEngine
            /\ \A p \in posts : p.from # oid

\* ------------------------------------------------------------------------
\* Properties of the Feed Fetcher (checked under SpecFeed)
\* ------------------------------------------------------------------------

\* C6: at most one invocation of the Feed Fetcher has passed the
\* isRSSFetching guard and not yet run the finally block.
C6_OneCycleInBody ==
    Cardinality({f \in Fetches : InBody(f)}) <= 1

\* C6 happens: a second invocation arrived while a cycle was among its
\* entries, and was turned away.
C6_Witness ==
    \E f, g \in Fetches : rss[f].pc = "items" /\ rss[g].pc = "returned" /\ rss[g].refused

\* C7: an invocation made while the lock is set returns 0 at once and
\* changes neither the queue nor the posts, and the lock stays set: only the
\* finally block of the running cycle clears it.
C7_RefusedFetchIsInert ==
    [][/\ \A f \in Fetches :
             (rss[f].pc = "idle" /\ isRSSFetching /\ rss'[f] # rss[f]) =>
                 /\ rss'[f].pc = "returned"
                 /\ rss'[f].ret = 0
                 /\ rss'[f].total = 0
                 /\ queue' = queue
                 /\ posts' = posts
                 /\ isRSSFetching'
       /\ (isRSSFetching /\ ~isRSSFetching') =>
             \E f \in Fetches : rss[f].pc = "finish" /\ rss'[f].pc = "returned"]_vars

\* C7 happens: an invocation has returned 0 from the guard while the cycle
\* that holds the lock goes on.
C7_Witness ==
    \E f, g \in Fetches :
        /\ InBody(f)
        /\ isRSSFetching
        /\ rss[g].refused
        /\ rss[g].ret = 0

\* The feed entry a cycle enqueued as e = <<source, index>>.
EntryAt(e) == feeds[e[1]][e[2]]

\* Two entries of different feeds enqueued by one cycle.
EnqueuedAcrossFeeds(f) ==
    {pair \in rss[f].enq \X rss[f].enq : pair[1][1] # pair[2][1]}

\* C8 as stated: of two entries of different feeds whose titles rate 0.65
\* or more, one cycle enqueues only the first.
C8_SimilarTitlesAtThreshold ==
    \A f \in Fetches : \A pair \in EnqueuedAcrossFeeds(f) :
        ~RatingAtLeastThreshold(compareTwoStrings(EntryAt(pair[1]).title,
                                                  EntryAt(pair[2]).title))

\* C8, amended: of two entries of different feeds whose titles rate above
\* 0.65, one cycle enqueues only the first.
C8_SimilarTitlesAboveThreshold ==
    \A f \in Fetches : \A pair \in EnqueuedAcrossFeeds(f) :
        ~RatingExceedsThreshold(compareTwoStrings(EntryAt(pair[1]).title,
                                                  EntryAt(pair[2]).title))

\* C8 happens: with nothing in the store, a cycle has read both feeds and
\* enqueued the first feed's entry but not the second feed's, whose link is
\* another and whose title rates above 0.65 against the first.
C8_Witness ==
    \E f \in Fetches :
        /\ rss[f].pc = "finish"
        /\ rss[f].parsed = {1, 2}
        /\ rss[f].snap = {}
        /\ \E e \in rss[f].enq : \E k \in 1..Len(feeds[2]) :
              /\ e[1] = 1
              /\ <<2, k>> \notin rss[f].enq
              /\ normalizeUrl(feeds[2][k].link) # normalizeUrl(EntryAt(e).link)
              /\ RatingExceedsThreshold(compareTwoStrings(feeds[2][k].title,
                                                          EntryAt(e).title))

\* Within a cycle: no enqueued entry's normalized link is the normalized url
\* of a Post or QueueItem the cycle read, and no two enqueued entries share
\* a normalized link.
NoKnownLinkEnqueued(f) ==
    /\ \A e \in rss[f].enq :
          normalizeUrl(EntryAt(e).link) \notin {normalizeUrl(u) : u \in rss[f].snap}
    /\ \A e1, e2 \in rss[f].enq :
          e1 # e2 => normalizeUrl(EntryAt(e1).link) # normalizeUrl(EntryAt(e2).link)

\* C9 as stated: no entry is enqueued whose normalized link is that of a
\* Post of the last 72 hours, of a QueueItem, or of an entry enqueued
\* earlier in the cycle; so a cycle that follows a cycle over the same feeds
\* with no drain in between enqueues nothing.
C9_SecondCycleNoDrain ==
    \A f \in Fetches :
        /\ NoKnownLinkEnqueued(f)
        /\ (InBody(f) /\ rss[f].before \cup since \subseteq {"aged"}) => rss[f].total = 0

\* C9, amended: the same, for a cycle that follows a cycle over the same
\* feeds with no drain and no Post leaving the 72-hour window in between.
C9_SecondCycleNothingChanged ==
    \A f \in Fetches :
        /\ NoKnownLinkEnqueued(f)
        /\ (InBody(f) /\ rss[f].before \cup since = {}) => rss[f].total = 0

\* C9 happens: a cycle that enqueued an entry past the links it read from
\* the store; and a cycle after a full cycle, nothing changed in between,
\* that has read every feed again and enqueued nothing.
C9_Witness ==
    \E f \in Fetches :
        /\ rss[f].pc = "finish"
        /\ rss[f].before \cup since = {}
        /\ rss[f].parsed = DOMAIN feeds
        /\ rss[f].total = 0
        /\ \E k \in 1..Len(queue) : queue[k].source \in {FeedName(1), FeedName(2)}

\* ------------------------------------------------------------------------
\* Properties of the Social Fetcher (checked under SpecSocial)
\* ------------------------------------------------------------------------

\* C10: a call for a handle takes at most 5 tweets and enqueues exactly
\* those whose id neither a QueueItem nor a Post carries (as it found them,
\* or as they are when it inserts), and none whose id one carries.
C10_EnqueuesExactlyUnseen ==
    \A c \in Cycles :
        /\ Len(tw[c].tweets) <= TweetSlice
        /\ (tw[c].newTweets # <<>> /\ tw[c].pc # "insert") =>
              /\ tw[c].inserted = SeqIds(tw[c].newTweets) \/ tw[c].inserted = tw[c].unseen
              /\ tw[c].inserted \cap tw[c].postedIds = {}

\* C11: once a tweet has been enqueued by the Social Fetcher and published
\* by the Worker, a later cycle that receives it again enqueues no QueueItem
\* for it.
C11_PublishedTweetNotRequeued ==
    \A c \in Cycles : tw[c].inserted \cap tw[c].published = {}

\* ------------------------------------------------------------------------
\* The Normalizer on its own
\* ------------------------------------------------------------------------

\* Paths have at most this many tokens.
MaxPathLen == 3

\* All sequences over S of length n, and of length at most n.
SeqsOfLen(S, n) == [1..n -> S]

SeqsUpTo(S, n) == UNION {SeqsOfLen(S, k) : k \in 0..n}

\* A URL from its parts: host, path, query ("?..." or nothing) and fragment
\* ("#..." or nothing).
BuildUrl(host, path, query, hash) == <<host>> \o path \o query \o hash

\* The URLs tried, all of which new URL() parses: a path of slashes and
\* letters, with and without a query and a fragment.
ValidUrls ==
    {BuildUrl(host, path, query, hash) :
        host \in Hosts,
        path \in {p \in SeqsUpTo({"/", "a", "B"}, MaxPathLen) : p = <<>> \/ p[1] = "/"},
        query \in {<<>>, <<"?", "q">>},
        hash \in {<<>>, <<"#", "f">>}}

\* Strings new URL() rejects.
InvalidUrls == {<<"a">>, <<"/", "a">>, <<"a", "?", "q">>, <<"n", "o", " ", "u", "r", "l">>}

\* url with another query string, and url with one more slash at the end of
\* its path.
WithQuery(url, query) == BuildUrl(url[1], PathOf(url), query, HashOf(url))

WithTrailingSlash(url) ==
    BuildUrl(url[1], PathOf(url) \o <<"/">>, QueryOf(url), HashOf(url))

\* normalizeUrl(url) is called.
CallNormalizeUrl ==
    /\ \E url \in ValidUrls \cup InvalidUrls \cup {UNDEF, <<>>} :
          call' = [fn |-> "normalizeUrl", arg |-> url, out |-> normalizeUrl(url)]
    /\ UNCHANGED <<storeVars, wk, feedVars, tw, engineVars, since, registryVars, boot, tagVars, removed>>

\* normalizeUrl is called on what it returned.
CallNormalizeUrlAgain ==
    /\ call.fn = "normalizeUrl"
    /\ call' = [fn |-> "normalizeUrl", arg |-> call.out, out |-> normalizeUrl(call.out)]
    /\ UNCHANGED <<storeVars, wk, feedVars, tw, engineVars, since, registryVars, boot, tagVars, removed>>

InitNormalizer == InitWith({}, << <<>>, <<>> >>)

NextNormalizer == CallNormalizeUrl \/ CallNormalizeUrlAgain

SpecNormalizer == InitNormalizer /\ [][NextNormalizer]_vars

\* C14: normalizeUrl is idempotent on valid URLs, also on those whose path
\* ends in more than one slash.
C14_NormalizeIdempotent ==
    (call.fn = "normalizeUrl" /\ call.arg \in ValidUrls) =>
        normalizeUrl(call.out) = call.out

\* C15: valid URLs that differ only in the query string or in one trailing
\* slash of the path normalize alike, with or without a fragment; and a
\* string that does not parse is returned as it is.
C15_QueryAndSlashIgnored ==
    call.fn = "normalizeUrl" =>
        /\ call.arg \in ValidUrls =>
              /\ normalizeUrl(WithQuery(call.arg, <<"?", "z">>)) = call.out
              /\ normalizeUrl(WithQuery(call.arg, <<>>)) = call.out
              /\ normalizeUrl(WithTrailingSlash(call.arg)) = call.out
        /\ call.arg \in InvalidUrls => call.out = call.arg

\* ------------------------------------------------------------------------
\* extractSlugFromUrl on its own
\* ------------------------------------------------------------------------

\* Paths have at most this many segments.
MaxSegments == 3

\* The path segments tried: words, numbers, a word with an underscore and a
\* capital, pages with an .html or .HTM ending.
SlugSegments ==
    {<<"n", "e">>, <<"2", "0">>, <<"7">>, <<"a", "_", "B">>,
     <<"p", ".", "h", "t", "m", "l">>, <<"p", ".", "h", "T", "M">>}

RECURSIVE JoinPath(_)
JoinPath(segs) ==
    IF segs = <<>> THEN <<>> ELSE <<"/">> \o Head(segs) \o JoinPath(Tail(segs))

SlugUrls ==
    {BuildUrl("H", JoinPath(segs) \o slash, query, <<>>) :
        segs \in SeqsUpTo(SlugSegments, MaxSegments),
        slash \in {<<>>, <<"/">>},
        query \in {<<>>, <<"?", "q">>}}

\* extractSlugFromUrl(url) is called.
CallExtractSlug ==
    /\ \E url \in SlugUrls \cup InvalidUrls \cup {UNDEF, <<>>} :
          call' = [fn |-> "extractSlugFromUrl", arg |-> url, out |-> extractSlugFromUrl(url)]
    /\ UNCHANGED <<storeVars, wk, feedVars, tw, engineVars, since, registryVars, boot, tagVars, removed>>

InitSlug == InitWith({}, << <<>>, <<>> >>)

NextSlug == CallExtractSlug

SpecSlug == InitSlug /\ [][NextSlug]_vars

\* seg with the ending, the underscores and the capitals dealt with as the
\* slug must have them: out is seg's lower-case, hyphenated text less an
\* .htm/.html ending.
IsSlugOf(out, seg) ==
    \E k \in {0, 4, 5} :
        /\ Len(seg) = Len(out) + k
        /\ out = ToLower(HyphenForUnderscore(SubSeq(seg, 1, Len(out))))
        /\ k # 0 => ToLower(SubSeq(seg, Len(out) + 1, Len(seg))) \in HtmlSuffixes
        /\ k = 0 => \A j \in {4, 5} :
                       Len(seg) >= j => ToLower(SubSeq(seg, Len(seg) - j + 1, Len(seg)))
                                           \notin HtmlSuffixes

\* C16: extractSlugFromUrl returns the slug of the last path segment that is
\* not purely numeric, less an .htm/.html ending, with hyphens for
\* underscores and in lower case; and "" for a url it cannot use.
C16_SlugOfLastNonNumeric ==
    call.fn = "extractSlugFromUrl" =>
        IF call.arg \in SlugUrls
          THEN LET segs == PathSegments(call.arg)
                   text == {i \in 1..Len(segs) : ~IsNumeric(segs[i])}
               IN  text # {} =>
                      IsSlugOf(call.out, segs[CHOOSE i \in text : \A j \in text : j <= i])
          ELSE call.out = <<>>


\* C13: a manually added QueueItem with no url, drained with a successful
\* rewrite whose slug is empty and whose category is absent, has produced
\* exactly one Post, with categories ["General"] and imageSearchSlug
\* "latest-telugu-news".
C13_ManualNoUrlPublished ==
    \A r \in Runs :
        (/\ wk[r].pc = "sleep"
         /\ Item(r).source = "Manual Paste"
         /\ Item(r).url = <<>>
         /\ wk[r].gemini.ok
         /\ ~IsFalsy(wk[r].gemini.title)
         /\ wk[r].gemini.slug_en = <<>>
         /\ IsFalsy(wk[r].gemini.category)) =>
            /\ Cardinality({p \in posts : p.from = Item(r).oid}) = 1
            /\ \A p \in posts :
                  p.from = Item(r).oid =>
                      /\ p.categories = <<General>>
                      /\ p.imageSearchSlug = LatestTeluguNews

\* ------------------------------------------------------------------------
\* Properties of related stories (checked under SpecStories)
\* ------------------------------------------------------------------------

\* C12: when the Worker has published a QueueItem, the Post made from it has
\* the item's relatedStories: same elements, same fields, same order (and the
\* empty list when the item had none).
C12_StoriesRoundTrip ==
    \A r \in Runs :
        wk[r].pc = "delete" =>
            /\ \E p \in posts : p.from = Item(r).oid
            /\ \A p \in posts :
                  p.from = Item(r).oid => p.relatedStories = Item(r).relatedStories

\* C12 happens: a published item carried two stories, the one without a url
\* first.
C12_Witness ==
    \E r \in Runs :
        /\ wk[r].pc = "delete"
        /\ Item(r).relatedStories = CastStories(<<StoryB, StoryA>>)
        /\ \E p \in posts : p.from = Item(r).oid

\* ------------------------------------------------------------------------
\* Properties of the manual endpoint (checked under SpecManual)
\* ------------------------------------------------------------------------

\* C20: a request of POST /api/add-content-to-queue whose body has content
\* or url adds exactly one QueueItem, carrying the relatedStories of the body;
\* one with neither is answered with an error and leaves the queue as it was.
\* (A step that leaves the drain runs alone is a request.)
C20_AddsOneItemWithStories ==
    [][(wk' = wk /\ call'.fn = "add-content-to-queue") =>
          IF IsFalsy(call'.arg.content) /\ IsFalsy(call'.arg.url)
            THEN call'.out.status >= 400 /\ queue' = queue
            ELSE /\ Len(queue') = Len(queue) + 1
                 /\ SubSeq(queue', 1, Len(queue)) = queue
                 /\ queue'[Len(queue')].relatedStories
                        = CastStories(call'.arg.relatedStories)]_vars

\* ------------------------------------------------------------------------
\* Properties of the Source Registry (checked under SpecRegistry)
\* ------------------------------------------------------------------------

\* C17: loadSources never throws to its caller (a step of it leaves the caller
\* on its normal path, never in its catch), a failed read leaves both lists
\* as they were, and the lists change only in the step that follows two
\* successful reads, which assigns both from what was read.
C17_LoadSourcesFailOpen ==
    [][/\ \A q \in Loaders :
            (crud[q].pc \in {"loadTwitter", "loadRss"} /\ crud'[q] # crud[q]) =>
                /\ crud'[q].pc \in {"loadRss", "respond"}
                /\ crud'[q].status # 500
                /\ crud'[q].caught =>
                      (TARGET_HANDLES' = TARGET_HANDLES /\ RSS_FEEDS' = RSS_FEEDS)
       /\ (TARGET_HANDLES' # TARGET_HANDLES \/ RSS_FEEDS' # RSS_FEEDS) =>
            \E q \in Loaders :
                /\ crud[q].pc = "loadRss"
                /\ ~crud'[q].caught
                /\ TARGET_HANDLES' = crud[q].twitterSources
                /\ RSS_FEEDS' = ActiveKeys(sourceStore, RssKeys)]_vars

\* C17 happens: a reload read the handles, its read of the feeds failed, and
\* the handle it had read is not in the list; its caller answered 200.
C17_Witness ==
    \E q \in Reqs :
        /\ crud[q].pc = "respond"
        /\ crud[q].caught
        /\ crud[q].status = 200
        /\ crud[q].twitterSources = {"h"}
        /\ TARGET_HANDLES = {}

\* C18: when a Source create, update or delete request has completed
\* successfully, the in-memory lists are the active Sources of the store.
C18_RegistryMatchesStore ==
    \A q \in Reqs :
        (crud[q].pc = "respond" /\ crud[q].status = 200) =>
            /\ TARGET_HANDLES = ActiveKeys(sourceStore, TwitterKeys)
            /\ RSS_FEEDS = ActiveKeys(sourceStore, RssKeys)

\* C38: when two Source mutations that overlapped have both completed, each
\* answered 200 after a reload none of whose reads failed, the in-memory
\* lists are the active Sources of the store.
C38_OverlappingReloadsAgree ==
    (\A q \in Reqs : /\ crud[q].pc = "respond"
                     /\ crud[q].status = 200
                     /\ ~crud[q].caught) =>
        /\ TARGET_HANDLES = ActiveKeys(sourceStore, TwitterKeys)
        /\ RSS_FEEDS = ActiveKeys(sourceStore, RssKeys)

\* ------------------------------------------------------------------------
\* Properties of the process start (checked under SpecBoot)
\* ------------------------------------------------------------------------

\* C19: with one of the three credentials missing the process registers no
\* scheduled job, does not listen and is never running.
C19_NoRunWithoutCredentials ==
    (boot.cron \/ boot.listening \/ boot.pc = "running") => boot.env = Credentials

\* ------------------------------------------------------------------------
\* Properties of the drain in sequence (checked under SpecSequential)
\* ------------------------------------------------------------------------

\* C21: when the Worker is through with a manually added item whose url is
\* not empty and is the url of a Post made from an earlier item, the rewrite
\* having succeeded where it was called, the item is gone from the queue and
\* one Post has that url.
C21_SecondSameUrlRemoved ==
    \A r \in Runs :
        (/\ wk[r].pc = "sleep"
         /\ ~IsFalsy(Item(r).url)
         /\ wk[r].gemini.ok /\ ~IsFalsy(wk[r].gemini.title)
         /\ \E p \in posts : p.url = Item(r).url /\ p.from # Item(r).oid) =>
            /\ Item(r).oid \notin QueueOids
            /\ Cardinality({p \in posts : p.url = Item(r).url}) = 1

\* ------------------------------------------------------------------------
\* Properties of the Feed Fetcher under failures (checked under SpecFeedFaults)
\* ------------------------------------------------------------------------

\* Source s went through the loop body of the cycle with nothing thrown.
Unbroken(run, s) == s \in run.parsed \ run.threw

\* C22: a cycle that entered the loop over the sources ends only after the
\* last source, whatever failed on the way; and at its end every entry of a
\* source that did not fail is enqueued or known (its normalized link among
\* existingUrls, which holds the enqueued ones, or its title alike a known
\* one).
C22_FeedFailureIsolated ==
    \A f \in Fetches :
        (rss[f].pc = "finish" /\ rss[f].src >= 1) =>
            /\ rss[f].src = Len(feeds)
            /\ \A s \in 1..Len(feeds) :
                  Unbroken(rss[f], s) =>
                      \A k \in 1..Min(Len(feeds[s]), FeedSlice) :
                          \/ normalizeUrl(feeds[s][k].link) \in rss[f].urls
                          \/ IsTitleDuplicate(feeds[s][k].title, rss[f].titles)

\* C22 happens: the first source failed, the second was read and an entry of
\* it enqueued.
C22_Witness ==
    \E f \in Fetches :
        /\ rss[f].pc = "finish"
        /\ 1 \notin rss[f].parsed \/ 1 \in rss[f].threw
        /\ 2 \in rss[f].parsed
        /\ \E k \in 1..Len(feeds[2]) : <<2, k>> \in rss[f].enq

\* C28: isRSSFetching is true only while a cycle is between its guard and
\* its finally: a cycle that has ended, however it ended, has released it.
C28_LockReleased ==
    isRSSFetching => \E f \in Fetches : InBody(f)

\* C28 happens: a cycle ended on a failed read of the store (it reached no
\* source) and the lock is free.
C28_Witness ==
    \E f \in Fetches :
        /\ rss[f].pc = "returned"
        /\ ~rss[f].refused
        /\ rss[f].src = 0
        /\ ~isRSSFetching

\* ------------------------------------------------------------------------
\* Failures of the Social Fetcher (checked under SpecCycles)
\* ------------------------------------------------------------------------

\* C23: when the response for a handle is missing, not ok or failing (the
\* call goes no further than the response), the call adds 0 to the sum and
\* nothing to the queue, and the cycle goes on with the next handle; it
\* returns only after the last one.
C23_HandleFailureIsolated ==
    [][\A c \in Cycles :
          (tw[c].pc = "fetch" /\ tw'[c] # tw[c] /\ tw'[c].pc # "readPosts") =>
              /\ tw'[c].total = tw[c].total
              /\ queue' = queue
              /\ IF tw[c].h < Len(Handles)
                    THEN tw'[c].pc = "fetch" /\ tw'[c].h = tw[c].h + 1
                    ELSE tw'[c].pc = "returned"]_vars

\* C23 happens: the first handle's response gave nothing and the cycle is
\* at the second handle.
C23_Witness ==
    \E c \in Cycles :
        /\ tw[c].pc = "fetch"
        /\ tw[c].h = 2
        /\ tw[c].tweets = <<>>
        /\ tw[c].total = 0

\* ------------------------------------------------------------------------
\* Properties of the drain under failures (checked under SpecDrainFaults)
\* ------------------------------------------------------------------------

BatchOids(batch) == {batch[j].oid : j \in 1..Len(batch)}

\* C25: the batch a run starts with has at most 3 items, all of the queue as
\* it is then, oldest first, and every QueueItem left out of it is younger
\* than every item in it; the run then has its items in hand one after the
\* other in that order.
C25_OldestThreeInOrder ==
    [][\A r \in Runs :
          /\ (wk[r].pc = "idle" /\ wk'[r].pc # "idle") =>
                LET batch == wk'[r].batch
                IN  /\ Len(batch) <= 3
                    /\ Len(batch) = Min(3, Len(queue))
                    /\ BatchOids(batch) \subseteq QueueOids
                    /\ \A j, k \in 1..Len(batch) : j < k => batch[j].oid < batch[k].oid
                    /\ \A o \in QueueOids \ BatchOids(batch) :
                          \A b \in BatchOids(batch) : b < o
                    /\ wk'[r].i = 1
          /\ (wk[r].pc \notin {"idle", "done"} /\ wk'[r] # wk[r]) =>
                /\ wk'[r].batch = wk[r].batch
                /\ wk'[r].i \in {wk[r].i, wk[r].i + 1}]_vars

\* C25 happens: a run is under way with a batch of 3 while a fourth, younger
\* item waits in the queue.
C25_Witness ==
    \E r \in Runs :
        /\ wk[r].pc = "save"
        /\ wk[r].i = 3
        /\ Len(wk[r].batch) = 3
        /\ \E o \in QueueOids : o \notin BatchOids(wk[r].batch)

\* The run has passed the item in hand to the Rewrite Engine.
PassedToEngine(r) == wk[r].pc \in {"rewrite", "save", "deleteNull", "delete", "sleep"}

\* C26: no QueueItem is passed to the Rewrite Engine by two runs, or again
\* after its rewrite returned null, and no two Posts come from one QueueItem.
C26_OncePerItem ==
    /\ \A r1, r2 \in Runs :
          (r1 # r2 /\ PassedToEngine(r1) /\ PassedToEngine(r2)) =>
              Item(r1).oid # Item(r2).oid
    /\ reEngine = {}
    /\ \A p, q \in posts : (p.from # 0 /\ p.from = q.from) => p = q

\* ------------------------------------------------------------------------
\* Properties of the drain of pasted texts (checked under LiveSpecPasted and
\* SpecPasted)
\* ------------------------------------------------------------------------

\* C27: every QueueItem of the backlog is eventually removed from the queue.
C27_EveryItemLeaves ==
    \A oid \in 1..Len(PastedBacklog) : <>(oid \notin QueueOids)

\* C29: a QueueItem added without a url (stored url "") and drained with a
\* successful rewrite never fails on the unique url index: when the run has
\* finished with it, a Post made from it exists and it is out of the queue.
C29_UrlLessNeverCollide ==
    \A r \in Runs :
        (/\ wk[r].pc = "sleep"
         /\ Item(r).url = <<>>
         /\ wk[r].gemini.ok
         /\ ~IsFalsy(wk[r].gemini.title)) =>
            /\ wk[r].outcome # "conflict"
            /\ \E p \in posts : p.from = Item(r).oid
            /\ Item(r).oid \notin QueueOids

\* ------------------------------------------------------------------------
\* Properties of the last-mile lookup (checked under SpecDedup)
\* ------------------------------------------------------------------------

\* c occurs in u as a run of consecutive characters, letter case ignored.
OccursIn(c, u) ==
    \E i \in 0..(Len(u) - Len(c)) :
        \A k \in 1..Len(c) : LowerTok(u[i + k]) = LowerTok(c[k])

\* C30: the lookup sends the item to deletion as a duplicate exactly when the
\* item has a non-empty url and the normalized url occurs, letter case
\* ignored, as a literal substring of the url of some Post that has one.
C30_DuplicateIffSubstring ==
    [][\A r \in Runs :
          (wk[r].pc = "dedup" /\ wk'[r] # wk[r]) =>
              (wk'[r].pc = "deleteDup" <=>
                  /\ Item(r).url # <<>>
                  /\ Item(r).url # UNDEF
                  /\ \E p \in posts :
                        /\ p.url # UNDEF
                        /\ OccursIn(normalizeUrl(Item(r).url), p.url))]_vars

\* C30 happens: an item is about to be deleted as a duplicate of a Post whose
\* url is longer than the item's normalized url and begins with it.
C30_Witness ==
    \E r \in Runs :
        /\ wk[r].pc = "deleteDup"
        /\ \E p \in posts :
              LET c == normalizeUrl(Item(r).url)
              IN  /\ p.url # UNDEF
                  /\ Len(p.url) > Len(c)
                  /\ SubSeq(p.url, 1, Len(c)) = c

\* ------------------------------------------------------------------------
\* Overlapping cycles of the Social Fetcher (checked under SpecCycles)
\* ------------------------------------------------------------------------

\* A cycle is in flight from the call of fetchAllTwitterHandles to its return.
InFlight(c) == tw[c].pc \notin {"idle", "returned"}

\* C31: at most one cycle of the Social Fetcher is in flight, and no two
\* cycles have both inserted a QueueItem for the same tweet id.
C31_OneCycleInFlight ==
    \A c1, c2 \in Cycles :
        c1 # c2 =>
            /\ ~(InFlight(c1) /\ InFlight(c2))
            /\ tw[c1].inserted \cap tw[c2].inserted = {}

\* ------------------------------------------------------------------------
\* Properties of a published Post (checked under SpecPublish)
\* ------------------------------------------------------------------------

\* The slug as the rule gives it, fixed being the last resort.
ExpectedSlug(slug_en, url, fixed) ==
    IF slug_en # UNDEF /\ Len(slug_en) >= 3 THEN slug_en
    ELSE IF extractSlugFromUrl(url) # <<>> THEN extractSlugFromUrl(url)
    ELSE fixed

\* The Posts built from the item a run has in hand.
PostsOf(r) == {p \in posts : p.from = Item(r).oid}

HasMp4Video(item) ==
    /\ MediaList(item) # <<>>
    /\ MediaList(item)[1].type = "video"
    /\ \E k \in 1..Len(MediaList(item)[1].variants) :
          MediaList(item)[1].variants[k].content_type = "video/mp4"

\* C33: a Post just saved has type "normal_video" and a videoUrl exactly
\* when the item's first media attachment is a video with an mp4 variant,
\* and then videoUrl is the url of an mp4 variant that no mp4 variant exceeds
\* in bitrate; otherwise its type is "normal_post" and its videoUrl is null.
C33_VideoIffBestMp4 ==
    \A r \in Runs :
        wk[r].pc = "delete" =>
            \A p \in PostsOf(r) :
                IF HasMp4Video(Item(r))
                  THEN /\ p.type = "normal_video"
                       /\ LET vs == MediaList(Item(r))[1].variants
                          IN  \E k \in 1..Len(vs) :
                                  /\ vs[k].content_type = "video/mp4"
                                  /\ vs[k].url = p.videoUrl
                                  /\ \A j \in 1..Len(vs) :
                                        vs[j].content_type = "video/mp4" =>
                                            vs[j].bitrate <= vs[k].bitrate
                  ELSE /\ p.type = "normal_post"
                       /\ p.videoUrl = NullUrl

\* C33 happens: a Post of type "normal_video" has been saved for an item
\* whose video has mp4 variants of two bitrates.
C33_Witness ==
    \E r \in Runs :
        /\ wk[r].pc = "delete"
        /\ \E p \in PostsOf(r) : p.type = "normal_video" /\ p.videoUrl # NullUrl
        /\ LET vs == MediaList(Item(r))[1].variants
           IN  \E j, k \in 1..Len(vs) :
                   /\ vs[j].content_type = "video/mp4"
                   /\ vs[k].content_type = "video/mp4"
                   /\ vs[j].bitrate < vs[k].bitrate

\* ------------------------------------------------------------------------
\* Properties of the Rewrite Engine's calls (checked under SpecScraper)
\* ------------------------------------------------------------------------

\* C34: whatever scraping the item's url gave, the generation call is
\* issued for the same item; its prompt has the item's text, and no Context
\* when the scraper failed or returned null.
C34_ScraperNeverAborts ==
    [][\A r \in Runs :
          /\ (wk[r].pc = "rewrite" /\ wk'[r] # wk[r]) =>
                /\ wk'[r].pc \in {"generate", "save", "deleteNull"}
                /\ wk'[r].i = wk[r].i
          /\ (wk[r].pc \in {"rewrite", "generate"} /\ wk'[r].pc \in {"save", "deleteNull"}) =>
                /\ wk'[r].prompt.text = Item(r).text
                /\ wk[r].scraped # "ok" => wk'[r].prompt.context = <<>>]_vars

\* C34 happens: a Post has been saved for an item whose scraping threw.
C34_Witness ==
    \E r \in Runs :
        /\ wk[r].pc = "delete"
        /\ wk[r].scraped = "failed"
        /\ wk[r].prompt = Prompt(Item(r).text, <<>>)
        /\ PostsOf(r) # {}

\* ------------------------------------------------------------------------
\* Properties of the Tags (checked under SpecTags)
\* ------------------------------------------------------------------------

\* C35: no two Tags share a slug; and a call all of whose names had their
\* slug in the collection when it began has created no Tag and returns the
\* ids of the Tags that have these slugs, in the order of the names.
C35_TagsNeverDuplicated ==
    /\ \A t1, t2 \in tags : t1.slug = t2.slug => t1 = t2
    /\ \A c \in TagCalls :
          (/\ tg[c].pc = "returned"
           /\ \A k \in 1..Len(tg[c].tagNames) : Slugify(tg[c].tagNames[k]) \in tg[c].existed) =>
              /\ tg[c].created = {}
              /\ Len(tg[c].tagIds) = Len(tg[c].tagNames)
              /\ \A k \in 1..Len(tg[c].tagNames) :
                    \E t \in tags : /\ t.id = tg[c].tagIds[k]
                                     /\ t.slug = Slugify(tg[c].tagNames[k])

\* C35 happens: two calls are at Tag.create for the same slug, and one of
\* them has created the Tag.
C35_Witness ==
    \E c1, c2 \in TagCalls :
        /\ c1 # c2
        /\ tg[c1].created # {}
        /\ tg[c2].pc = "create"
        /\ \E t \in tags :
              /\ t.id \in tg[c1].created
              /\ t.slug = Slugify(tg[c2].tagNames[tg[c2].i])

\* ------------------------------------------------------------------------
\* The counts the fetchers report (checked under SpecCycles)
\* ------------------------------------------------------------------------

\* C36: what a call adds to its count is the number of QueueItems it added
\* to the queue: an entry of a feed handled adds as much to totalQueued as to
\* the queue, and the call for a handle returns the number of QueueItems its
\* insertMany inserted.
C36_CountIsInserted ==
    [][/\ \A f \in Fetches :
             (rss[f].pc = "items" /\ rss'[f] # rss[f]) =>
                 rss'[f].total - rss[f].total = Len(queue') - Len(queue)
       /\ \A c \in Cycles :
             (tw[c].pc = "insert" /\ tw'[c] # tw[c]) =>
                 tw'[c].total - tw[c].total = Len(queue') - Len(queue)]_vars

\* ------------------------------------------------------------------------
\* The admin's requests on the queue (checked under SpecAdmin)
\* ------------------------------------------------------------------------

\* C37: no Post is created from a QueueItem that a completed admin request
\* has removed from the queue.
C37_RemovedNeverPublished ==
    [][\A p \in posts' \ posts : p.from \notin removed]_vars

\* ------------------------------------------------------------------------
\* The order of the Rewrite Engine's calls in a run (checked under SpecDedup)
\* ------------------------------------------------------------------------

\* The call of the Rewrite Engine for an item starts at the item's lookup,
\* and the run is at one item at a time; the run ends after its last item.
OneItemAtATime(r) ==
    /\ (wk'[r].pc = "rewrite" /\ wk[r].pc # "rewrite") =>
          (wk[r].pc = "dedup" /\ wk'[r].i = wk[r].i)
    /\ (wk[r].i >= 1 /\ wk'[r].i # wk[r].i /\ wk'[r].pc # "idle") =>
          (wk'[r].i = wk[r].i + 1 /\ wk'[r].pc = "dedup")
    /\ (wk'[r].pc = "done" /\ wk[r].pc # "done") =>
          (wk[r].pc \in {"sleep", "deleteDup"} /\ wk[r].i = Len(wk[r].batch))

\* C39 as stated: a run goes to its next item only from the delay that
\* follows the item in hand, which by then was deleted or had its exception
\* caught.
C39_DelayBeforeEveryItem ==
    [][\A r \in Runs :
          /\ OneItemAtATime(r)
          /\ (wk[r].i >= 1 /\ wk'[r].i = wk[r].i + 1) =>
                (wk[r].pc = "sleep" /\ wk[r].outcome # "none")]_vars

\* C39 amended: a run goes to its next item from the delay that follows an
\* item passed to the Rewrite Engine (deleted, or its exception caught), or
\* without a delay from the deletion of an item found to be a duplicate, for
\* which the Rewrite Engine was not called.
C39_DelayAfterEveryCall ==
    [][\A r \in Runs :
          /\ OneItemAtATime(r)
          /\ (wk[r].i >= 1 /\ wk'[r].i = wk[r].i + 1) =>
                \/ wk[r].pc = "sleep" /\ wk[r].outcome # "none"
                \/ /\ wk[r].pc = "deleteDup"
                   /\ wk[r].gemini = NullResult
                   /\ Item(r).oid \notin {queue'[k].oid : k \in 1..Len(queue')}]_vars

\* C39 happens: the Rewrite Engine is being called for the second item of a
\* batch whose first item was deleted as a duplicate.
C39_Witness ==
    \E r \in Runs :
        /\ wk[r].pc = "rewrite"
        /\ wk[r].i = 2
        /\ wk[r].batch[1].oid \notin QueueOids \cup nulled
        /\ \A p \in posts : p.from # wk[r].batch[1].oid
=============================================================================
